---- MODULE Spec2Model ----
(***************************************************************************)
(* Eris: persistence of Lua object graphs (eris.c).                        *)
(*                                                                         *)
(* One behaviour is one round trip: unchecked_persist writes the graph     *)
(* reachable from `root` of the source heap `heap` to the stream `out`,    *)
(* then unchecked_unpersist reads `out` and builds the graph in `nheap`.   *)
(* Every call of persist / persist_keyed / WRITE_RAW and every call of     *)
(* unpersist and of each continuation of a u_* function after a recursive  *)
(* unpersist is one action; the work lists pwork / uwork are the C call    *)
(* stack (the part of each function that is still to run).                 *)
(***************************************************************************)
EXTENDS Integers, Sequences, FiniteSets, TLC

VARIABLES
  heap,      \* the Lua heap of the persisting VM: object id -> object
  root,      \* the value handed to persist
  io,        \* the sink and the source of the host: "ok" (they take and
             \*   deliver whatever is asked), "faulty" (they may refuse),
             \*   "failed" (the sink has returned non-zero or the source
             \*   has delivered less than was asked for)
  api,       \* the public functions used: "dump" (eris_dump, eris_undump)
             \*   or "persist" (eris_persist, eris_unpersist)
  wperms,    \* permanents table of persist: set of <<object, permanent key>>
  uperms,    \* permanents table of unpersist: set of <<permanent key, object>>
  running,   \* id of the thread that executes persist (pi->L), 0: not in heap
  bits,      \* width of size_t in the build: sizes are counted modulo
             \*   2^bits
  phase,     \* "start", "persist", "dumped", "unpersist", "done", "failed",
             \*   "crashed"
  err,       \* message of the error that was raised, "" if none
  preftbl,   \* PersistInfo: reftable, set of <<key, id>>
  prefcount, \* PersistInfo.refcount
  pwork,     \* what is left to do in persist (innermost call first)
  pstk,      \* the Lua stack of the persisting VM
  out,       \* the words written so far
  plog,      \* history of persist_keyed: <<key, id, "body"|"perm"|"ref",
             \*   position in the stream, back reference>>
  nheap,     \* the Lua heap of the unpersisting VM
  ureftbl,   \* UnpersistInfo: reftable, id -> value (array part of a table)
  urefcount, \* UnpersistInfo.refcount
  uwork,     \* what is left to do in unpersist (innermost call first)
  pos,       \* number of words read from the stream
  stk,       \* the Lua stack of the unpersisting VM (perms reftbl ...)
  ulog,      \* history of unpersist: <<"ref", position, id, value found>>,
             \*   <<"made", position, 0, value built from the words there>>
  uret,      \* history of unpersist: <<framing word, height of the stack
             \*   when unpersist was called, height when it returned>>
  gc         \* collector of the unpersisting VM: "running" / "stopped"

wvars == <<preftbl, prefcount, pwork, pstk, out, plog>>
uvars == <<nheap, ureftbl, urefcount, uwork, pos, stk, ulog, uret, gc>>
avars == <<root, api, wperms, uperms, running, bits>>
ivars == <<heap, root, api, wperms, uperms, running, bits>>
vars == <<heap, root, api, wperms, uperms, running, bits, phase, err, preftbl,
          prefcount, pwork, pstk, out, plog, nheap, ureftbl, urefcount, uwork,
          pos, stk, ulog, uret, gc, io>>

-----------------------------------------------------------------------------
(* Bounds of the model.                                                    *)

\* number of array slots of the root table of a scenario
MaxSlots == 2
\* width of size_t in a build whose buffer never reaches the limit
WideBits == 16
\* width of size_t in a build whose buffer reaches the limit
NarrowBits == 3

-----------------------------------------------------------------------------
(* Type tags (lua.h / lobject.h, in the order of kTypenames).              *)

LUA_TNIL == 0
LUA_TBOOLEAN == 1
LUA_TLIGHTUSERDATA == 2
LUA_TNUMBER == 3
LUA_TSTRING == 4
LUA_TTABLE == 5
LUA_TFUNCTION == 6
LUA_TUSERDATA == 7
LUA_TTHREAD == 8
LUA_TPROTO == 9
LUA_TUPVAL == 10
LUA_TOTALTAGS == 12
ERIS_PERMANENT == LUA_TOTALTAGS + 1
ERIS_REFERENCE_OFFSET == ERIS_PERMANENT + 1

\* (size_t)-1, the word that ends the list of open upvalues
SIZE_MAX == 255

\* call status bits of a CallInfo (lstate.h)
CIST_LUA == 1
CIST_YIELDED == 8
CIST_YPCALL == 16
CIST_HOOKYIELD == 128

HasBit(x, b) == (x \div b) % 2 = 1

\* settings (static variables of eris.c)
writeDebugInformation == 1
passIOToPersist == 0
generatePath == 0

-----------------------------------------------------------------------------
(* Lua values. An object value names a heap object; strings, numbers,      *)
(* booleans, light userdata and light C functions are equal when their     *)
(* contents are equal (lua_rawequal).                                      *)

V(k, n) == [k |-> k, v |-> n]
Nil == V("nil", 0)
Bool(b) == V("bool", b)
Num(n) == V("num", n)
Ptr(n) == V("ptr", n)
Str(n) == V("str", n)
Lcf(n) == V("lcf", n)
Obj(i) == V("obj", i)
\* the table a Lua function builds when it is called (not in the heap yet)
NewTbl == V("newtbl", 0)
\* stack slots 1 and 2 of unchecked_persist and unchecked_unpersist
PermsTbl == V("perms", 0)
RefTbl == V("reftbl", 0)
\* what the caller of eris_persist / eris_unpersist has on its stack below
\* the arguments
Mark == V("mark", 0)
\* the string with the n words of the stream
StreamStr(n) == V("stream", n)
\* the userdata that holds the buffer of l_persist, with its capacity
Buff(n) == V("buff", n)

\* the address of a heap object, as used for light userdata surrogates
Addr(i) == 100 + i
ObjAt(a) == a - 100
\* the address of upvalue slot nup of Lua closure cl (UpVal**)
SlotAddr(cl, nup) == 1000 + 10 * cl + nup
SlotCl(a) == (a - 1000) \div 10
SlotNup(a) == (a - 1000) % 10

\* the bytes of a string; a string value is named by a number
StrBytes(n) == IF n = 0 THEN <<>>
               ELSE IF n < 10 THEN <<n>> ELSE <<n \div 10, n % 10>>
StrOfBytes(bs) == IF Len(bs) = 0 THEN 0
                  ELSE IF Len(bs) = 1 THEN bs[1] ELSE 10 * bs[1] + bs[2]

\* "__persist"
persistKey == Str(9)

lua_type(h, x) ==
  CASE x.k = "nil" -> LUA_TNIL
    [] x.k = "bool" -> LUA_TBOOLEAN
    [] x.k = "ptr" -> LUA_TLIGHTUSERDATA
    [] x.k = "num" -> LUA_TNUMBER
    [] x.k = "str" -> LUA_TSTRING
    [] x.k = "lcf" -> LUA_TFUNCTION
    [] x.k \in {"newtbl", "perms", "reftbl"} -> LUA_TTABLE
    [] x.k = "stream" -> LUA_TSTRING
    [] x.k = "buff" -> LUA_TUSERDATA
    [] x.k = "obj" ->
         CASE h[x.v].type \in {"table", "uvtbl"} -> LUA_TTABLE
           [] h[x.v].type \in {"ccl", "lcl"} -> LUA_TFUNCTION
           [] h[x.v].type = "userdata" -> LUA_TUSERDATA
           [] h[x.v].type = "thread" -> LUA_TTHREAD

IsObj(h, x, ty) == x.k = "obj" /\ h[x.v].type = ty

\* a table with keys: set of <<key, value>>, at most one pair per key
TGet(t, key) == IF \E p \in t : p[1] = key
                THEN (CHOOSE p \in t : p[1] = key)[2] ELSE Nil
TSet(t, key, val) == {p \in t : p[1] # key} \cup {<<key, val>>}

\* lua_rawget on a heap table (pairs kept in the order of lua_next)
RawGet(h, t, key) ==
  LET ps == h[t].pairs
      hit == {i \in 1..Len(ps) : ps[i][1] = key}
  IN IF hit = {} THEN Nil ELSE ps[CHOOSE i \in hit : TRUE][2]

\* lua_rawset on a heap table
RawSet(h, t, key, val) ==
  LET ps == h[t].pairs
      hit == {i \in 1..Len(ps) : ps[i][1] = key}
  IN IF hit = {}
     THEN [h EXCEPT ![t].pairs = Append(ps, <<key, val>>)]
     ELSE [h EXCEPT ![t].pairs[CHOOSE i \in hit : TRUE] = <<key, val>>]

\* the value of an upvalue: *uv->v
UVal(h, u) == IF h[u].open THEN h[h[u].th].stack[h[u].off + 1] ELSE h[u].val

\* What a call of a Lua function returns. The first instruction of the
\* prototype of the function stands for its body: 0 returns nil, 1 a new
\* table, 2 the value of upvalue 1, 3 its first argument, 4 a number.
lua_call(h, f, arg) ==
  IF ~IsObj(h, f, "lcl") THEN Nil
  ELSE LET op == h[h[f.v].p].code[1]
       IN CASE op = 1 -> NewTbl
            [] op = 2 ->
                 IF Len(h[f.v].upv) >= 1 THEN UVal(h, h[f.v].upv[1]) ELSE Nil
            [] op = 3 -> arg
            [] op = 4 -> Num(4)
            [] OTHER -> Nil

-----------------------------------------------------------------------------
(* Persist. A task is a call that is still to be made: persist(x),         *)
(* persist_keyed(x, y, n), WRITE_RAW(ws) or eris_error(m).                 *)

Task(op, x, y, n, ws, m) ==
  [op |-> op, x |-> x, y |-> y, n |-> n, ws |-> ws, m |-> m]
PersistT(x) == Task("persist", x, Nil, 0, <<>>, "")
KeyedT(x, key, type) == Task("keyed", x, key, type, <<>>, "")
WriteT(ws) == Task("write", Nil, Nil, 0, ws, "")
ErrorT(m) == Task("error", Nil, Nil, 0, <<>>, m)
\* the return of the persist_keyed call that has issued id n
ReturnT(n) == Task("return", Nil, Nil, n, <<>>, "")
\* What the code does to the Lua stack between two calls, as its net
\* effect: lua_pop(L, n), then a push of x unless x is NoVal.
NoVal == V("none", 0)
StackT(n, x) == Task("stack", x, Nil, n, <<>>, "")
PushT(x) == StackT(0, x)
PopT(n) == StackT(n, NoVal)

\* the stack operations at the head of the work list w are carried out on
\* the stack st: they belong to the step that has reached them
RECURSIVE RunStack(_, _)
RunStack(w, st) ==
  IF w # <<>> /\ Head(w).op = "stack"
  THEN RunStack(Tail(w),
                SubSeq(st, 1, Len(st) - Head(w).n)
                \o (IF Head(w).x = NoVal THEN <<>> ELSE << Head(w).x >>))
  ELSE [w |-> w, st |-> st]

\* the calls of a work list, without the stack operations between them
RECURSIVE Calls(_)
Calls(w) ==
  IF w = <<>> THEN <<>>
  ELSE IF Head(w).op = "stack" THEN Calls(Tail(w))
  ELSE << Head(w) >> \o Calls(Tail(w))

RECURSIVE Flat(_)
Flat(ss) == IF ss = <<>> THEN <<>> ELSE Head(ss) \o Flat(Tail(ss))

p_boolean(x) == << WriteT(<<x.v>>) >>
p_pointer(x) == << WriteT(<<x.v>>) >>
p_number(x) == << WriteT(<<x.v>>) >>
p_string(x) == << WriteT(<<Len(StrBytes(x.v))>>), WriteT(StrBytes(x.v)) >>

p_metatable(h, x) == << PushT(h[x.v].mt), PersistT(h[x.v].mt), PopT(1) >>

\* lua_next replaces the key on top by the next key and its value, and
\* pops the key after the last pair
p_literaltable(h, x) ==
  << PushT(Nil) >>
  \o Flat([i \in 1..Len(h[x.v].pairs) |->
            << StackT(1, h[x.v].pairs[i][1]), PushT(h[x.v].pairs[i][2]),
               PushT(h[x.v].pairs[i][1]), PersistT(h[x.v].pairs[i][1]),
               PopT(1), PersistT(h[x.v].pairs[i][2]), PopT(1) >>])
  \o << PopT(1), PushT(Nil), PersistT(Nil), PopT(1) >> \o p_metatable(h, x)

p_literaluserdata(h, x) ==
  << WriteT(<<Len(h[x.v].data)>>), WriteT(h[x.v].data) >> \o p_metatable(h, x)

\* p_special that writes every object literally, whatever its metatable
\* says (C12 must not hold of it)
p_special_literal(h, x, literal) == << WriteT(<<0>>) >> \o literal

p_special(h, x, literal) ==
  LET mt == h[x.v].mt
      pk == IF mt = Nil THEN Nil ELSE RawGet(h, mt.v, persistKey)
      pkt == lua_type(h, pk)
      allow == IF mt # Nil /\ pkt = LUA_TBOOLEAN THEN pk.v = 1
               ELSE h[x.v].type = "table"
      res == lua_call(h, pk, x)
  IN IF mt # Nil /\ pkt = LUA_TFUNCTION
     THEN IF lua_type(h, res) # LUA_TFUNCTION
          THEN << PushT(res), ErrorT("__persist did not return a function") >>
          ELSE << PushT(res), WriteT(<<1>>), PersistT(res), PopT(1) >>
     ELSE IF mt # Nil /\ pkt \notin {LUA_TNIL, LUA_TBOOLEAN}
     THEN << PushT(mt), PushT(pk),
             ErrorT("__persist not nil, boolean, or function") >>
     ELSE IF allow THEN << WriteT(<<0>>) >> \o literal
     ELSE IF h[x.v].type = "table"
     THEN << ErrorT("attempt to persist forbidden table") >>
     ELSE << ErrorT("literally persisting userdata is disabled by default") >>

p_table(h, x) == p_special(h, x, p_literaltable(h, x))
p_userdata(h, x) == p_special(h, x, p_literaluserdata(h, x))

\* x is the light userdata that holds the Proto*
p_proto(h, x) ==
  LET p == h[ObjAt(x.v)]
  IN << WriteT(<<p.linedefined>>), WriteT(<<p.lastlinedefined>>),
        WriteT(<<p.numparams>>), WriteT(<<p.is_vararg>>),
        WriteT(<<p.maxstacksize>>),
        WriteT(<<Len(p.code)>>), WriteT(p.code), WriteT(<<Len(p.k)>>) >>
     \o Flat([i \in 1..Len(p.k) |->
                << PushT(p.k[i]), PersistT(p.k[i]), PopT(1) >>])
     \o << WriteT(<<Len(p.p)>>) >>
     \o Flat([i \in 1..Len(p.p) |->
                << PushT(Ptr(Addr(p.p[i]))), PushT(Ptr(Addr(p.p[i]))),
                   KeyedT(Ptr(Addr(p.p[i])), Ptr(Addr(p.p[i])), LUA_TPROTO),
                   PopT(1) >>])
     \o << WriteT(<<Len(p.upvalues)>>) >>
     \o Flat([i \in 1..Len(p.upvalues) |->
                << WriteT(<<p.upvalues[i].instack>>),
                   WriteT(<<p.upvalues[i].idx>>) >>])
     \o << WriteT(<<writeDebugInformation>>) >>
     \o IF writeDebugInformation = 0 THEN <<>>
        ELSE << PushT(p.source), PersistT(p.source), PopT(1),
                WriteT(<<Len(p.lineinfo)>>), WriteT(p.lineinfo),
                WriteT(<<Len(p.locvars)>>) >>
             \o Flat([i \in 1..Len(p.locvars) |->
                        << WriteT(<<p.locvars[i].startpc>>),
                           WriteT(<<p.locvars[i].endpc>>),
                           PushT(p.locvars[i].varname),
                           PersistT(p.locvars[i].varname), PopT(1) >>])
             \o Flat([i \in 1..Len(p.upvalues) |->
                        << PushT(p.upvalues[i].name),
                           PersistT(p.upvalues[i].name), PopT(1) >>])

p_upval(x) == << PersistT(x) >>

\* p_closure that writes the address of the native function of a C
\* closure (C18 must not hold of it)
p_closure_address(h, x) ==
  IF x.k = "lcf"
  THEN << WriteT(<<LUA_TFUNCTION>>), WriteT(<<x.v>>) >>
  ELSE IF h[x.v].type = "ccl"
  THEN << WriteT(<<1>>), WriteT(<<Len(h[x.v].upv)>>), WriteT(<<h[x.v].f>>) >>
       \o Flat([i \in 1..Len(h[x.v].upv) |->
                  << PushT(h[x.v].upv[i]), PersistT(h[x.v].upv[i]), PopT(1) >>])
  ELSE << WriteT(<<0>>), WriteT(<<Len(h[x.v].upv)>>),
          PushT(Ptr(Addr(h[x.v].p))), PushT(Ptr(Addr(h[x.v].p))),
          KeyedT(Ptr(Addr(h[x.v].p)), Ptr(Addr(h[x.v].p)), LUA_TPROTO),
          PopT(1) >>
       \o Flat([i \in 1..Len(h[x.v].upv) |->
                  << PushT(UVal(h, h[x.v].upv[i])),
                     PushT(Ptr(Addr(h[x.v].upv[i]))),
                     KeyedT(UVal(h, h[x.v].upv[i]), Ptr(Addr(h[x.v].upv[i])),
                            LUA_TUPVAL),
                     PopT(1) >>])

p_closure(h, x) ==
  IF x.k = "lcf"
  THEN << ErrorT("Attempt to persist a light C function") >>
  ELSE IF h[x.v].type = "ccl"
  THEN << WriteT(<<1>>), WriteT(<<Len(h[x.v].upv)>>),
          PushT(Lcf(h[x.v].f)), PersistT(Lcf(h[x.v].f)), PopT(1) >>
       \o Flat([i \in 1..Len(h[x.v].upv) |->
                  << PushT(h[x.v].upv[i]), PersistT(h[x.v].upv[i]), PopT(1) >>])
  ELSE << WriteT(<<0>>), WriteT(<<Len(h[x.v].upv)>>),
          PushT(Ptr(Addr(h[x.v].p))), PushT(Ptr(Addr(h[x.v].p))),
          KeyedT(Ptr(Addr(h[x.v].p)), Ptr(Addr(h[x.v].p)), LUA_TPROTO),
          PopT(1) >>
       \o Flat([i \in 1..Len(h[x.v].upv) |->
                  << PushT(UVal(h, h[x.v].upv[i])),
                     PushT(Ptr(Addr(h[x.v].upv[i]))),
                     KeyedT(UVal(h, h[x.v].upv[i]), Ptr(Addr(h[x.v].upv[i])),
                            LUA_TUPVAL),
                     PopT(1) >>])

\* a call-info frame written without the test for a yield in a hook (C17
\* must not hold of it)
p_callinfo_nohook(ci, last) ==
  << WriteT(<<ci.func>>), WriteT(<<ci.top>>), WriteT(<<ci.nresults>>),
     WriteT(<<ci.callstatus>>), WriteT(<<ci.extra>>) >>
  \o (IF HasBit(ci.callstatus, CIST_LUA)
      THEN << WriteT(<<ci.base>>), WriteT(<<ci.savedpc>>) >>
      ELSE << WriteT(<<ci.status>>) >>
           \o IF HasBit(ci.callstatus, CIST_YPCALL)
                 \/ HasBit(ci.callstatus, CIST_YIELDED)
              THEN << WriteT(<<ci.ctx>>), PushT(Lcf(ci.k)),
                      PersistT(Lcf(ci.k)), PopT(1) >>
              ELSE <<>>)
  \o << WriteT(<<IF last THEN 1 ELSE 0>>) >>

\* one call-info frame of p_thread
p_callinfo(ci, last) ==
  << WriteT(<<ci.func>>), WriteT(<<ci.top>>), WriteT(<<ci.nresults>>),
     WriteT(<<ci.callstatus>>), WriteT(<<ci.extra>>) >>
  \o (IF HasBit(ci.callstatus, CIST_HOOKYIELD)
      THEN << ErrorT("cannot persist yielded hooks") >> ELSE <<>>)
  \o (IF HasBit(ci.callstatus, CIST_LUA)
      THEN << WriteT(<<ci.base>>), WriteT(<<ci.savedpc>>) >>
      ELSE << WriteT(<<ci.status>>) >>
           \o IF HasBit(ci.callstatus, CIST_YPCALL)
                 \/ HasBit(ci.callstatus, CIST_YIELDED)
              THEN << WriteT(<<ci.ctx>>), PushT(Lcf(ci.k)),
                      PersistT(Lcf(ci.k)), PopT(1) >>
              ELSE <<>>)
  \o << WriteT(<<IF last THEN 1 ELSE 0>>) >>

\* p_thread without the test for the running thread (C15 must not hold of
\* it)
p_thread_nocheck(h, x, L) ==
  LET th == h[x.v]
  IN << WriteT(<<th.status>>), WriteT(<<th.nCcalls>>),
        WriteT(<<th.allowhook>>),
        WriteT(<<th.stacksize>>), WriteT(<<Len(th.stack)>>) >>
     \o << PushT(Nil) >>
     \o Flat([i \in 1..Len(th.stack) |->
                << StackT(1, th.stack[i]), PersistT(th.stack[i]) >>])
     \o << PopT(1) >>
     \o Flat([i \in 1..Len(th.ci) |->
                p_callinfo(th.ci[i], i = Len(th.ci))])
     \o << PushT(Nil) >>
     \o Flat([i \in 1..Len(th.openupval) |->
                << WriteT(<<h[th.openupval[i]].off>>),
                   StackT(1, UVal(h, th.openupval[i])),
                   PushT(Ptr(Addr(th.openupval[i]))),
                   KeyedT(UVal(h, th.openupval[i]),
                          Ptr(Addr(th.openupval[i])), LUA_TUPVAL) >>])
     \o << WriteT(<<SIZE_MAX>>), PopT(1) >>

\* the tests for errorJmp, errfunc and nny are eris_assert, which is
\* compiled to nothing
p_thread(h, x, L) ==
  LET th == h[x.v]
  IN IF x.v = L
     THEN << ErrorT("cannot persist currently running thread") >>
     ELSE << WriteT(<<th.status>>), WriteT(<<th.nCcalls>>),
             WriteT(<<th.allowhook>>),
             WriteT(<<th.stacksize>>), WriteT(<<Len(th.stack)>>) >>
          \o << PushT(Nil) >>
          \o Flat([i \in 1..Len(th.stack) |->
                     << StackT(1, th.stack[i]), PersistT(th.stack[i]) >>])
          \o << PopT(1) >>
          \o Flat([i \in 1..Len(th.ci) |->
                     p_callinfo(th.ci[i], i = Len(th.ci))])
          \o << PushT(Nil) >>
          \o Flat([i \in 1..Len(th.openupval) |->
                     << WriteT(<<h[th.openupval[i]].off>>),
                        StackT(1, UVal(h, th.openupval[i])),
                        PushT(Ptr(Addr(th.openupval[i]))),
                        KeyedT(UVal(h, th.openupval[i]),
                               Ptr(Addr(th.openupval[i])), LUA_TUPVAL) >>])
          \o << WriteT(<<SIZE_MAX>>), PopT(1) >>

persist_typed(h, x, type, L) ==
  << WriteT(<<type>>) >>
  \o CASE type = LUA_TBOOLEAN -> p_boolean(x)
       [] type = LUA_TLIGHTUSERDATA -> p_pointer(x)
       [] type = LUA_TNUMBER -> p_number(x)
       [] type = LUA_TSTRING -> p_string(x)
       [] type = LUA_TTABLE -> p_table(h, x)
       [] type = LUA_TFUNCTION -> p_closure(h, x)
       [] type = LUA_TUSERDATA -> p_userdata(h, x)
       [] type = LUA_TTHREAD -> p_thread(h, x, L)
       [] type = LUA_TPROTO -> p_proto(h, x)
       [] type = LUA_TUPVAL -> p_upval(x)
       [] OTHER -> << ErrorT("trying to persist unknown type") >>

\* persist_keyed without the lookup in the reftable: every occurrence of a
\* key is given a new id and written in full (C4 must not hold of it)
persist_keyed_nolookup(h, perms, reftbl, refcount, x, key, type, L) ==
  LET permkey == TGet(perms, key)
  IN IF permkey # Nil
     THEN [reftbl |-> TSet(reftbl, key, Num(refcount + 1)),
           refcount |-> refcount + 1,
           todo |-> << StackT(1, permkey), WriteT(<<ERIS_PERMANENT>>),
                       WriteT(<<lua_type(h, x)>>), PersistT(permkey),
                       PopT(1), ReturnT(refcount + 1) >>,
           log |-> <<key, refcount + 1, "perm">>]
     ELSE [reftbl |-> TSet(reftbl, key, Num(refcount + 1)),
           refcount |-> refcount + 1,
           todo |-> << PopT(1) >> \o persist_typed(h, x, type, L)
                    \o << ReturnT(refcount + 1) >>,
           log |-> <<key, refcount + 1, "body">>]

\* persist_keyed that puts the key into the reftable only when the
\* permanents table has no entry for it (C29 must not hold of it)
persist_keyed_late(h, perms, reftbl, refcount, x, key, type, L) ==
  LET ref == TGet(reftbl, key)
      permkey == TGet(perms, key)
  IN IF ref # Nil
     THEN [reftbl |-> reftbl, refcount |-> refcount,
           todo |-> << WriteT(<<ref.v + ERIS_REFERENCE_OFFSET>>), PopT(1) >>,
           log |-> <<key, ref.v, "ref">>]
     ELSE IF permkey # Nil
     THEN [reftbl |-> reftbl, refcount |-> refcount,
           todo |-> << StackT(1, permkey), WriteT(<<ERIS_PERMANENT>>),
                       WriteT(<<lua_type(h, x)>>), PersistT(permkey),
                       PopT(1), ReturnT(refcount + 1) >>,
           log |-> <<key, refcount + 1, "perm">>]
     ELSE [reftbl |-> TSet(reftbl, key, Num(refcount + 1)),
           refcount |-> refcount + 1,
           todo |-> << PopT(1) >> \o persist_typed(h, x, type, L)
                    \o << ReturnT(refcount + 1) >>,
           log |-> <<key, refcount + 1, "body">>]

\* persist_keyed, for an object x with reftable key `key` (the stack holds
\* the object and, on top of it, the key, which persist_keyed consumes):
\* the new reftable, the new refcount, the calls that follow, the log entry
persist_keyed_step(h, perms, reftbl, refcount, x, key, type, L) ==
  LET ref == TGet(reftbl, key)
      permkey == TGet(perms, key)
  IN IF ref # Nil
     THEN [reftbl |-> reftbl, refcount |-> refcount,
           todo |-> << WriteT(<<ref.v + ERIS_REFERENCE_OFFSET>>), PopT(1) >>,
           log |-> <<key, ref.v, "ref">>]
     ELSE IF permkey # Nil
     THEN [reftbl |-> TSet(reftbl, key, Num(refcount + 1)),
           refcount |-> refcount + 1,
           todo |-> << StackT(1, permkey), WriteT(<<ERIS_PERMANENT>>),
                       WriteT(<<lua_type(h, x)>>), PersistT(permkey),
                       PopT(1), ReturnT(refcount + 1) >>,
           log |-> <<key, refcount + 1, "perm">>]
     ELSE [reftbl |-> TSet(reftbl, key, Num(refcount + 1)),
           refcount |-> refcount + 1,
           todo |-> << PopT(1) >> \o persist_typed(h, x, type, L)
                    \o << ReturnT(refcount + 1) >>,
           log |-> <<key, refcount + 1, "body">>]

\* persist that writes only nil without persist_keyed (C11 must not hold
\* of it)
persist_step_keyed(h, x, L) ==
  LET type == lua_type(h, x)
  IN IF type = LUA_TNIL THEN << WriteT(<<type>>) >>
     ELSE << PushT(x), KeyedT(x, x, type) >>

\* persist, for the value x: the call(s) it makes
persist_step(h, x, L) ==
  LET type == lua_type(h, x)
  IN IF type = LUA_TNIL THEN << WriteT(<<type>>) >>
     ELSE IF type \in {LUA_TBOOLEAN, LUA_TLIGHTUSERDATA, LUA_TNUMBER}
     THEN persist_typed(h, x, type, L)
     ELSE << PushT(x), KeyedT(x, x, type) >>

\* a writer that takes the values off the stack of a thread when it
\* persists the thread (C24 must not hold of it)
Graph_emptied(h, t) ==
  IF t.op = "keyed" /\ IsObj(h, t.x, "thread")
  THEN [h EXCEPT ![t.x.v].stack = <<>>] ELSE h

\* The graph after the writer has carried out the call t. persist,
\* persist_keyed and the p_* functions store into the stack of pi->L
\* (lua_push*, eris_setobj(pi->L, pi->L->top - 1, o)), into the reftable
\* (lua_rawset) and into the buffer, and read everything else: the fields
\* of tables, closures, prototypes, upvalues and threads are only read
\* (lua_next, lua_getupvalue, lua_getmetatable, thread->..., ci->...).
Graph(h, t) == h

persist ==
  /\ phase = "persist" /\ pwork # <<>> /\ Head(pwork).op = "persist"
  /\ LET r == RunStack(persist_step(heap, Head(pwork).x, running)
                         \o Tail(pwork), pstk)
     IN pwork' = r.w /\ pstk' = r.st
  /\ UNCHANGED <<preftbl, prefcount, out, plog>>
  /\ heap' = Graph(heap, Head(pwork))
  /\ UNCHANGED <<phase, err>> /\ UNCHANGED avars /\ UNCHANGED io /\ UNCHANGED uvars

\* the persist_keyed call that has issued id i has not returned yet
InProgress(i) == \E j \in 1..Len(pwork) : pwork[j].op = "return" /\ pwork[j].n = i

\* plog gets <<key, id, kind, words written before, reference into a body
\* that is still being written>>
persist_keyed ==
  /\ phase = "persist" /\ pwork # <<>> /\ Head(pwork).op = "keyed"
  /\ LET t == Head(pwork)
         r == persist_keyed_step(heap, wperms, preftbl, prefcount,
                                 t.x, t.y, t.n, running)
         rs == RunStack(r.todo \o Tail(pwork), pstk)
     IN /\ preftbl' = r.reftbl
        /\ prefcount' = r.refcount
        /\ pwork' = rs.w /\ pstk' = rs.st
        /\ plog' = Append(plog, r.log \o << Len(out), InProgress(r.log[2]) >>)
  /\ UNCHANGED out
  /\ heap' = Graph(heap, Head(pwork))
  /\ UNCHANGED <<phase, err>> /\ UNCHANGED avars /\ UNCHANGED io /\ UNCHANGED uvars

\* persist_keyed returns to its caller
persist_keyed_return ==
  /\ phase = "persist" /\ pwork # <<>> /\ Head(pwork).op = "return"
  /\ LET r == RunStack(Tail(pwork), pstk)
     IN pwork' = r.w /\ pstk' = r.st
  /\ UNCHANGED <<preftbl, prefcount, out, plog>>
  /\ heap' = Graph(heap, Head(pwork))
  /\ UNCHANGED <<phase, err>> /\ UNCHANGED avars /\ UNCHANGED io /\ UNCHANGED uvars

\* where the frame of the function that calls unchecked_persist or
\* unchecked_unpersist begins on the stack: eris_dump and eris_undump run in
\* the frame of their caller, l_persist and l_unpersist in a frame of their
\* own above the caller's three values and the function
Base == IF api = "dump" THEN 0 ELSE 4

\* size_t arithmetic
SizeT(n) == n % (2 ^ bits)

\* the capacity of the buffer of l_persist (slot 3 of its frame)
sizebuffer(st) == IF st[Base + 3] = Nil THEN 0 ELSE st[Base + 3].v

\* a writer that does not test the new capacity (C30 must not hold of it)
writer_unchecked(st, size, sz) ==
  LET capacity == sizebuffer(st)
      twice == SizeT(capacity * 2)
      newcapacity == IF SizeT(twice - size) < sz THEN SizeT(capacity + sz)
                     ELSE twice
  IN IF SizeT(capacity - size) < sz
     THEN [ret |-> 0, st |-> [st EXCEPT ![Base + 3] = Buff(newcapacity)]]
     ELSE [ret |-> 0, st |-> st]

\* the writer of l_persist, called with sz bytes when the buffer holds
\* `size`: what it returns and the stack it leaves. A buffer that is too
\* small is replaced by a new userdata in slot 3, unless the new capacity
\* is not above the old one.
writer(st, size, sz) ==
  LET capacity == sizebuffer(st)
      twice == SizeT(capacity * 2)
      newcapacity == IF SizeT(twice - size) < sz THEN SizeT(capacity + sz)
                     ELSE twice
  IN IF SizeT(capacity - size) < sz
     THEN IF newcapacity <= capacity THEN [ret |-> 1, st |-> st]
          ELSE [ret |-> 0, st |-> [st EXCEPT ![Base + 3] = Buff(newcapacity)]]
     ELSE [ret |-> 0, st |-> st]

\* WRITE_RAW that goes on when the sink has returned non-zero (C23 must
\* not hold of it)
SinkIgnored ==
  /\ io' = "failed"
  /\ out' = out
  /\ LET r == RunStack(Tail(pwork), pstk)
     IN pwork' = r.w /\ pstk' = r.st
  /\ UNCHANGED <<preftbl, prefcount, plog>>
  /\ UNCHANGED <<phase, err>> /\ UNCHANGED ivars /\ UNCHANGED uvars

\* WRITE_RAW when the sink has returned non-zero
SinkRefused ==
  /\ io' = "failed"
  /\ phase' = "failed" /\ err' = "could not write data" /\ pwork' = <<>>
  /\ UNCHANGED <<preftbl, prefcount, pstk, out, plog>>
  /\ UNCHANGED ivars /\ UNCHANGED uvars

\* WRITE_RAW: with eris_dump a sink of the host takes the bytes or
\* refuses them, with eris_persist the writer above takes them
WRITE_RAW ==
  /\ phase = "persist" /\ pwork # <<>> /\ Head(pwork).op = "write"
  /\ \/ /\ api = "dump" \/ writer(pstk, Len(out), Len(Head(pwork).ws)).ret = 0
        /\ out' = out \o Head(pwork).ws
        /\ LET st == IF api = "dump" THEN pstk
                     ELSE writer(pstk, Len(out), Len(Head(pwork).ws)).st
               r == RunStack(Tail(pwork), st)
           IN pwork' = r.w /\ pstk' = r.st
        /\ UNCHANGED <<preftbl, prefcount, plog>>
        /\ heap' = Graph(heap, Head(pwork))
        /\ UNCHANGED <<phase, err>> /\ UNCHANGED avars /\ UNCHANGED io
        /\ UNCHANGED uvars
     \/ io = "faulty" /\ api = "dump" /\ SinkRefused
     \/ /\ api = "persist"
        /\ writer(pstk, Len(out), Len(Head(pwork).ws)).ret # 0
        /\ SinkRefused

\* eris_error raised by persist: lua_error unwinds the whole call
p_error ==
  /\ phase = "persist" /\ pwork # <<>> /\ Head(pwork).op = "error"
  /\ phase' = "failed"
  /\ err' = Head(pwork).m
  /\ pwork' = <<>>
  /\ UNCHANGED <<preftbl, prefcount, pstk, out, plog>>
  /\ UNCHANGED ivars /\ UNCHANGED io /\ UNCHANGED uvars

-----------------------------------------------------------------------------
(* Host tables as unpersist uses them through the Lua API.                 *)

Top(s) == s[Len(s)]
At(s, i) == s[Len(s) + 1 + i]            \* At(s, -1) is the top
Pop(s, n) == SubSeq(s, 1, Len(s) - n)
Max(S) == CHOOSE x \in S : \A y \in S : y <= x

\* lua_rawseti on the reftable (an array): storing nil removes the entry
ISet(t, i, val) == IF val = Nil THEN {p \in t : p[1] # i} ELSE TSet(t, i, val)

\* The table u_upval creates with lua_createtable(L, 3, 0): `slots` holds
\* the non-nil entries, `sizearray` and `hsize` the sizes of the array part
\* and of the node vector (ltable.c).
NewUvTbl == [type |-> "uvtbl", sizearray |-> 3, hsize |-> 0, slots |-> {}]

RECURSIVE BinSearch(_, _, _)
BinSearch(t, i, j) ==
  IF j - i > 1
  THEN LET m == (i + j) \div 2
       IN IF TGet(t.slots, m) = Nil THEN BinSearch(t, i, m)
          ELSE BinSearch(t, m, j)
  ELSE i

RECURSIVE UnboundSearch(_, _, _)
UnboundSearch(t, i, j) ==
  IF TGet(t.slots, j) # Nil THEN UnboundSearch(t, j, 2 * j)
  ELSE BinSearch(t, i, j)

\* luaL_len of a table without __len: luaH_getn
luaL_len(t) ==
  LET j == t.sizearray
  IN IF j > 0 /\ TGet(t.slots, j) = Nil THEN BinSearch(t, 0, j)
     ELSE IF t.hsize = 0 THEN j
     ELSE UnboundSearch(t, j, j + 1)

\* computesizes of ltable.c for the set of integer keys ks
ComputeSize(ks) ==
  LET cand == {n \in {1, 2, 4, 8, 16, 32} :
                 /\ n \div 2 < Cardinality(ks)
                 /\ \E k \in ks : n \div 2 < k /\ k <= n
                 /\ Cardinality({k \in ks : k <= n}) > n \div 2}
  IN IF cand = {} THEN 0 ELSE Max(cand)

CeilPow2(n) == IF n = 0 THEN 0
               ELSE CHOOSE c \in {1, 2, 4, 8, 16, 32} :
                      c >= n /\ \A d \in {1, 2, 4, 8, 16, 32} : d >= n => c <= d

\* lua_rawseti on such a table (luaH_setint, luaH_newkey, rehash)
lua_rawseti(t, i, val) ==
  LET keys == {p[1] : p \in t.slots}
      inhash == {k \in keys : k > t.sizearray}
  IN IF i <= t.sizearray \/ i \in keys \/ Cardinality(inhash) < t.hsize
     THEN [t EXCEPT !.slots = ISet(t.slots, i, val)]
     ELSE LET ks == keys \cup {i}
              na == ComputeSize(ks)
          IN [t EXCEPT !.sizearray = na,
                       !.hsize = CeilPow2(Cardinality({k \in ks : k > na})),
                       !.slots = ISet(t.slots, i, val)]

\* first free index from 3 on (the loop of u_closure)
RECURSIVE FirstNil(_, _)
FirstNil(t, i) == IF TGet(t.slots, i) = Nil THEN i ELSE FirstNil(t, i + 1)

\* lua_tocfunction
lua_tocfunction(h, x) ==
  IF x.k = "lcf" THEN x.v
  ELSE IF IsObj(h, x, "ccl") THEN h[x.v].f ELSE 0

\* lua_touserdata of a light userdata that holds an object address
lua_touserdata(x) == IF x.k = "ptr" THEN ObjAt(x.v) ELSE 0

\* luaF_newproto
NewProto ==
  [type |-> "proto", linedefined |-> 0, lastlinedefined |-> 0,
   numparams |-> 0, is_vararg |-> 0, maxstacksize |-> 0, code |-> <<>>,
   k |-> <<>>, p |-> <<>>, upvalues |-> <<>>, source |-> Nil,
   lineinfo |-> <<>>, locvars |-> <<>>]

\* a CallInfo as luaE_extendCI leaves it
NewCI ==
  [func |-> 0, top |-> 0, nresults |-> 0, callstatus |-> 0, extra |-> 0,
   base |-> 0, savedpc |-> 0, status |-> 0, ctx |-> 0, k |-> 0]

\* luaF_newupval: a closed upvalue that holds nil
NewUpVal == [type |-> "upval", open |-> FALSE, th |-> 0, off |-> 0,
             val |-> Nil, clobbered |-> FALSE]

\* luaF_findupval: the open upvalue of thread th at stack offset off, made
\* and linked into th.openupval (highest level first) when there is none
FindUpval(h, th, off) ==
  LET have == {u \in 1..Len(h) :
                 h[u].type = "upval" /\ h[u].open /\ h[u].th = th
                 /\ h[u].off = off /\ \E i \in 1..Len(h[th].openupval) :
                                        h[th].openupval[i] = u}
  IN IF have # {} THEN [h |-> h, uv |-> CHOOSE u \in have : TRUE]
     ELSE LET id == Len(h) + 1
              lst == h[th].openupval
              before == {i \in 1..Len(lst) : h[lst[i]].off > off}
              n == Cardinality(before)
              nl == SubSeq(lst, 1, n) \o <<id>> \o SubSeq(lst, n + 1, Len(lst))
          IN [h |-> [Append(h, [NewUpVal EXCEPT !.open = TRUE, !.th = th,
                                                !.off = off])
                       EXCEPT ![th].openupval = nl],
              uv |-> id]

-----------------------------------------------------------------------------
(* Unpersist. A task is unpersist itself or the rest of a u_* function     *)
(* after one of its calls of unpersist has returned.                       *)

UT(op, x, n, y) == Task(op, x, y, n, <<>>, "")
UnpersistT == UT("unpersist", Nil, 0, Nil)

\* the end of the invocation of unpersist that has read the framing word w
\* when the stack held n values
RetT(w, n) == UT("unpersist_return", Num(w), n, Nil)

\* the invocations of unpersist that end at the head of the work list w,
\* with the stack st: uret gets <<framing word, height of the stack at the
\* call, height at the return>>
RECURSIVE RunRet(_, _, _)
RunRet(w, st, lg) ==
  IF w # <<>> /\ Head(w).op = "unpersist_return"
  THEN RunRet(Tail(w), st, Append(lg, << Head(w).x.v, Head(w).n, Len(st) >>))
  ELSE [w |-> w, log |-> lg]

\* the i-th word from the read position on; what a read past the end of
\* the stream leaves in its target never is used, the read raises the error
Rd(i) == IF pos + i <= Len(out) THEN out[pos + i] ELSE 0
RdSeq(i, n) == [j \in 1..n |-> Rd(i + j - 1)]

\* READ_RAW when eris_read reports missing bytes
ReadFail ==
  /\ phase' = "failed" /\ err' = "could not read data" /\ uwork' = <<>>
  /\ io' = "failed"
  /\ UNCHANGED <<nheap, ureftbl, urefcount, stk, pos, ulog, uret, gc>>
  /\ UNCHANGED ivars /\ UNCHANGED wvars

\* the effect of one step of unpersist that reads the words up to ps: the
\* stream may end before ps, and a faulty source may deliver less
UStep(nh, rt, rc, st, ps, todo, lg) ==
  IF ps > Len(out) THEN ReadFail
  ELSE \/ /\ nheap' = nh /\ ureftbl' = rt /\ urefcount' = rc /\ stk' = st
          /\ pos' = ps /\ ulog' = lg
          /\ LET td == IF Head(uwork).op = "unpersist"
                       THEN todo \o << RetT(Rd(1), Len(stk)) >> ELSE todo
                 r == RunRet(td \o Tail(uwork), st, uret)
             IN uwork' = r.w /\ uret' = r.log
          /\ UNCHANGED <<phase, err, gc, io>>
          /\ UNCHANGED ivars /\ UNCHANGED wvars
       \/ io = "faulty" /\ ps > pos /\ ReadFail

\* eris_error raised by unpersist: lua_error unwinds the whole call; the
\* collector stays as unchecked_unpersist has set it
UFail(m) ==
  /\ phase' = "failed" /\ err' = m /\ uwork' = <<>>
  /\ UNCHANGED <<nheap, ureftbl, urefcount, stk, pos, ulog, uret, gc>>
  /\ UNCHANGED ivars /\ UNCHANGED io /\ UNCHANGED wvars

UAt(op) == phase = "unpersist" /\ uwork # <<>> /\ Head(uwork).op = op

LogMade(lg, p, v) == Append(lg, <<"made", p, 0, v>>)
LogRef(lg, p, ref, v) == Append(lg, <<"ref", p, ref, v>>)

\* registerobject: the value on top of stack st gets the next id
Register(rt, rc, st) == ISet(rt, rc + 1, Top(st))

\* u_string
u_string ==
  LET len == Rd(2)
      st == Append(stk, Str(StrOfBytes(RdSeq(3, len))))
  IN UStep(nheap, Register(ureftbl, urefcount, st), urefcount + 1, st,
           pos + 2 + len, <<>>, LogMade(ulog, pos, Top(st)))

\* u_literaltable that does not bind the id of the new table before it
\* reads the pairs (C6 must not hold of it)
u_literaltable_unbound ==
  LET id == Len(nheap) + 1
      st == Append(stk, Obj(id))
  IN UStep(Append(nheap, [type |-> "table", pairs |-> <<>>, mt |-> Nil]),
           ureftbl, urefcount + 1, st, pos + 2,
           << UnpersistT, UT("u_literaltable_key", Nil, 0, Nil) >>,
           LogMade(ulog, pos, Obj(id)))

\* u_literaltable up to its first unpersist
u_literaltable ==
  LET id == Len(nheap) + 1
      st == Append(stk, Obj(id))
  IN UStep(Append(nheap, [type |-> "table", pairs |-> <<>>, mt |-> Nil]),
           Register(ureftbl, urefcount, st), urefcount + 1, st, pos + 2,
           << UnpersistT, UT("u_literaltable_key", Nil, 0, Nil) >>,
           LogMade(ulog, pos, Obj(id)))

\* u_literaluserdata up to u_metatable
u_literaluserdata ==
  LET id == Len(nheap) + 1
      size == Rd(3)
      st == Append(stk, Obj(id))
  IN UStep(Append(nheap, [type |-> "userdata", data |-> RdSeq(4, size),
                          mt |-> Nil]),
           Register(ureftbl, urefcount, st), urefcount + 1, st,
           pos + 3 + size,
           << UnpersistT, UT("u_metatable", Nil, 0, Nil) >>,
           LogMade(ulog, pos, Obj(id)))

\* u_special that reserves the id with a placeholder that is not nil (the
\* amended C14 must not hold of it)
u_special_placeholder(type) ==
  IF Rd(2) # 0
  THEN UStep(nheap, Register(ureftbl, urefcount, Append(stk, Num(0))),
             urefcount + 1, stk, pos + 2,
             << UnpersistT,
                UT("u_special_call", Num(pos), type, Num(urefcount + 1)) >>,
             ulog)
  ELSE IF type = LUA_TTABLE THEN u_literaltable ELSE u_literaluserdata

\* u_special: a set flag byte reserves the id with nil and reads the function
u_special(type) ==
  IF Rd(2) # 0
  THEN UStep(nheap, Register(ureftbl, urefcount, Append(stk, Nil)),
             urefcount + 1, stk, pos + 2,
             << UnpersistT,
                UT("u_special_call", Num(pos), type, Num(urefcount + 1)) >>,
             ulog)
  ELSE IF type = LUA_TTABLE THEN u_literaltable ELSE u_literaluserdata

\* u_closure up to its first unpersist
u_closure ==
  LET isCClosure == Rd(2)
      nups == Rd(3)
      cl == Len(nheap) + 1
      np == Len(nheap) + 2
      st == Append(stk, Obj(cl))
  IN IF isCClosure # 0
     THEN UStep(nheap, ureftbl, urefcount, stk, pos + 3,
                << UnpersistT, UT("u_closure_c", Num(pos), nups, Nil) >>, ulog)
     ELSE UStep(nheap \o << [type |-> "lcl", p |-> np,
                             upv |-> [i \in 1..nups |-> 0]], NewProto >>,
                Register(ureftbl, urefcount, st), urefcount + 1,
                Append(st, Ptr(Addr(np))), pos + 3,
                << UnpersistT, UT("u_closure_proto", Obj(cl), 0, Nil) >>
                \o Flat([i \in 1..nups |->
                           << UnpersistT, UT("u_closure_upval", Obj(cl), i, Nil) >>]),
                LogMade(ulog, pos, Obj(cl)))

\* u_thread up to the first stack slot
u_thread ==
  LET th == Len(nheap) + 1
      st == Append(stk, Obj(th))
      top == Rd(6)
  IN UStep(Append(nheap, [type |-> "thread", status |-> Rd(2),
                          nCcalls |-> Rd(3), allowhook |-> Rd(4),
                          stacksize |-> Rd(5),
                          stack |-> [i \in 1..top |-> Nil],
                          ci |-> << NewCI >>, openupval |-> <<>>,
                          errorJmp |-> 0, errfunc |-> 0]),
           Register(ureftbl, urefcount, st), urefcount + 1, st, pos + 6,
           Flat([i \in 1..top |->
                   << UnpersistT, UT("u_thread_slot", Obj(th), i, Nil) >>])
           \o << UT("u_thread_callinfo", Obj(th), 0, Nil) >>,
           LogMade(ulog, pos, Obj(th)))

\* u_proto up to the first constant; the Proto* is on top of the stack
u_proto ==
  LET p == lua_touserdata(Top(stk))
      sizecode == Rd(7)
      sizek == Rd(8 + sizecode)
  IN IF p = 0 \/ p > Len(nheap) THEN UFail("undefined behaviour")
     ELSE UStep([nheap EXCEPT ![p].linedefined = Rd(2),
                              ![p].lastlinedefined = Rd(3),
                              ![p].numparams = Rd(4), ![p].is_vararg = Rd(5),
                              ![p].maxstacksize = Rd(6),
                              ![p].code = RdSeq(8, sizecode),
                              ![p].k = [i \in 1..sizek |-> Nil]],
                Register(ureftbl, urefcount, stk), urefcount + 1, stk,
                pos + 8 + sizecode,
                Flat([i \in 1..sizek |->
                        << UnpersistT, UT("u_proto_constant", Top(stk), i, Nil) >>])
                \o << UT("u_proto_children", Top(stk), 0, Nil) >>,
                LogMade(ulog, pos, Top(stk)))

\* u_upval up to its unpersist
u_upval ==
  LET id == Len(nheap) + 1
      st == Append(stk, Obj(id))
  IN UStep(Append(nheap, NewUvTbl), Register(ureftbl, urefcount, st),
           urefcount + 1, st, pos + 1,
           << UnpersistT, UT("u_upval_value", Nil, 0, Nil) >>,
           LogMade(ulog, pos, Obj(id)))

\* u_permanent up to its unpersist: whatever is on top of the stack is
\* registered to reserve the id
u_permanent ==
  UStep(nheap, Register(ureftbl, urefcount, stk), urefcount + 1, stk, pos + 2,
        << UnpersistT,
           UT("u_permanent_lookup", Num(pos), Rd(2), Num(urefcount + 1)) >>,
        ulog)

\* unpersist: a reference word, or a type tag and the start of its u_* function
unpersist ==
  /\ UAt("unpersist")
  /\ LET w == Rd(1)
         ref == w - ERIS_REFERENCE_OFFSET
         found == TGet(ureftbl, ref)
     IN IF w > ERIS_REFERENCE_OFFSET
        THEN IF found = Nil
             THEN \/ /\ phase' = "failed" /\ err' = "invalid reference"
                     /\ uwork' = <<>> /\ ulog' = LogRef(ulog, pos, ref, Nil)
                     /\ UNCHANGED <<nheap, ureftbl, urefcount, stk, pos, uret, gc>>
                     /\ UNCHANGED ivars /\ UNCHANGED io /\ UNCHANGED wvars
                  \/ io = "faulty" /\ ReadFail
             ELSE UStep(nheap, ureftbl, urefcount, Append(stk, found),
                        pos + 1, <<>>, LogRef(ulog, pos, ref, found))
        ELSE CASE w = LUA_TNIL ->
                    UStep(nheap, ureftbl, urefcount, Append(stk, Nil),
                          pos + 1, <<>>, ulog)
               [] w = LUA_TBOOLEAN ->
                    UStep(nheap, ureftbl, urefcount,
                          Append(stk, Bool(IF Rd(2) # 0 THEN 1 ELSE 0)),
                          pos + 2, <<>>, ulog)
               [] w = LUA_TLIGHTUSERDATA ->
                    UStep(nheap, ureftbl, urefcount, Append(stk, Ptr(Rd(2))),
                          pos + 2, <<>>, ulog)
               [] w = LUA_TNUMBER ->
                    UStep(nheap, ureftbl, urefcount, Append(stk, Num(Rd(2))),
                          pos + 2, <<>>, ulog)
               [] w = LUA_TSTRING -> u_string
               [] w = LUA_TTABLE -> u_special(LUA_TTABLE)
               [] w = LUA_TFUNCTION -> u_closure
               [] w = LUA_TUSERDATA -> u_special(LUA_TUSERDATA)
               [] w = LUA_TTHREAD -> u_thread
               [] w = LUA_TPROTO -> u_proto
               [] w = LUA_TUPVAL -> u_upval
               [] w = ERIS_PERMANENT -> u_permanent
               [] OTHER -> \/ UFail("trying to unpersist unknown type")
                           \/ io = "faulty" /\ ReadFail

\* u_literaltable: the key has been read
u_literaltable_key ==
  /\ UAt("u_literaltable_key")
  /\ IF Top(stk) = Nil
     THEN UStep(nheap, ureftbl, urefcount, Pop(stk, 1), pos,
                << UnpersistT, UT("u_metatable", Nil, 0, Nil) >>, ulog)
     ELSE UStep(nheap, ureftbl, urefcount, stk, pos,
                << UnpersistT, UT("u_literaltable_value", Nil, 0, Nil),
                   UnpersistT, UT("u_literaltable_key", Nil, 0, Nil) >>, ulog)

\* u_literaltable: the value has been read (... tbl key value)
u_literaltable_value ==
  /\ UAt("u_literaltable_value")
  /\ IF Top(stk) = Nil THEN UFail("bad table value, got a nil value")
     ELSE IF ~IsObj(nheap, At(stk, -3), "table") THEN UFail("undefined behaviour")
     ELSE UStep(RawSet(nheap, At(stk, -3).v, At(stk, -2), Top(stk)),
                ureftbl, urefcount, Pop(stk, 2), pos, <<>>, ulog)

\* u_metatable after its unpersist (... obj mt/nil)
u_metatable ==
  /\ UAt("u_metatable")
  /\ IF lua_type(nheap, Top(stk)) = LUA_TTABLE
     THEN IF IsObj(nheap, At(stk, -2), "table") \/ IsObj(nheap, At(stk, -2), "userdata")
          THEN UStep([nheap EXCEPT ![At(stk, -2).v].mt = Top(stk)],
                     ureftbl, urefcount, Pop(stk, 1), pos, <<>>, ulog)
          ELSE UStep(nheap, ureftbl, urefcount, Pop(stk, 1), pos, <<>>, ulog)
     ELSE IF Top(stk) = Nil
     THEN UStep(nheap, ureftbl, urefcount, Pop(stk, 1), pos, <<>>, ulog)
     ELSE UFail("bad metatable, not nil or table")

\* u_special that leaves the reserved entry of the reftable as it is (C13
\* must not hold of it)
u_special_call_norewrite ==
  /\ UAt("u_special_call")
  /\ LET type == Head(uwork).n
         res == lua_call(nheap, Top(stk), Nil)
         id == Len(nheap) + 1
         obj == IF res = NewTbl THEN Obj(id) ELSE res
         nh == IF res = NewTbl
               THEN Append(nheap, [type |-> "table", pairs |-> <<>>, mt |-> Nil])
               ELSE nheap
     IN IF lua_type(nheap, Top(stk)) # LUA_TFUNCTION
        THEN UFail("invalid restore function")
        ELSE IF lua_type(nh, obj) # type
        THEN UFail("bad unpersist function")
        ELSE UStep(nh, ureftbl, urefcount, Append(Pop(stk, 1), obj), pos, <<>>,
                   LogMade(ulog, Head(uwork).x.v, obj))

\* u_special after its unpersist: call the function, check and store the result
u_special_call ==
  /\ UAt("u_special_call")
  /\ LET type == Head(uwork).n
         ref == Head(uwork).y.v
         res == lua_call(nheap, Top(stk), Nil)
         id == Len(nheap) + 1
         obj == IF res = NewTbl THEN Obj(id) ELSE res
         nh == IF res = NewTbl
               THEN Append(nheap, [type |-> "table", pairs |-> <<>>, mt |-> Nil])
               ELSE nheap
     IN IF lua_type(nheap, Top(stk)) # LUA_TFUNCTION
        THEN UFail("invalid restore function")
        ELSE IF lua_type(nh, obj) # type
        THEN UFail("bad unpersist function")
        ELSE UStep(nh, ISet(ureftbl, ref, obj), urefcount,
                   Append(Pop(stk, 1), obj), pos, <<>>,
                   LogMade(ulog, Head(uwork).x.v, obj))

\* u_closure, C closure: the C function has been read; create the closure
\* with nil upvalues, register it, then read the upvalues
u_closure_c ==
  /\ UAt("u_closure_c")
  /\ LET nups == Head(uwork).n
         f == lua_tocfunction(nheap, Top(stk))
         id == Len(nheap) + 1
         st == Append(Pop(stk, 1), IF nups = 0 THEN Lcf(f) ELSE Obj(id))
         nh == IF nups = 0 THEN nheap
               ELSE Append(nheap, [type |-> "ccl", f |-> f,
                                   upv |-> [i \in 1..nups |-> Nil]])
     IN UStep(nh, Register(ureftbl, urefcount, st), urefcount + 1, st, pos,
              Flat([i \in 1..nups |->
                      << UnpersistT, UT("u_closure_cupval", Nil, i, Nil) >>]),
              LogMade(ulog, Head(uwork).x.v, Top(st)))

\* u_closure, C closure: lua_setupvalue(L, -2, nup)
u_closure_cupval ==
  /\ UAt("u_closure_cupval")
  /\ LET nup == Head(uwork).n
         cl == At(stk, -2)
     IN IF IsObj(nheap, cl, "ccl") /\ nup <= Len(nheap[cl.v].upv)
        THEN UStep([nheap EXCEPT ![cl.v].upv[nup] = Top(stk)],
                   ureftbl, urefcount, Pop(stk, 1), pos, <<>>, ulog)
        ELSE UStep(nheap, ureftbl, urefcount, stk, pos, <<>>, ulog)

\* u_closure, Lua closure: the prototype has been read (... lcl nproto proto)
u_closure_proto ==
  /\ UAt("u_closure_proto")
  /\ LET cl == Head(uwork).x.v
     IN UStep([nheap EXCEPT ![cl].p = lua_touserdata(Top(stk))],
              ureftbl, urefcount, Pop(stk, 2), pos, <<>>, ulog)

\* u_closure that makes a new upvalue for every slot, whatever slot 2 of
\* the table holds (C7 must not hold of it)
u_closure_upval_unshared ==
  /\ UAt("u_closure_upval")
  /\ LET cl == Head(uwork).x.v
         nup == Head(uwork).n
         tbl == Top(stk)
         nid == Len(nheap) + 1
     IN IF ~IsObj(nheap, tbl, "uvtbl") THEN UFail("undefined behaviour")
        ELSE UStep([Append(nheap, [NewUpVal EXCEPT
                                     !.val = TGet(nheap[tbl.v].slots, 1)])
                      EXCEPT ![cl].upv[nup] = nid,
                             ![tbl.v] = lua_rawseti(@, 2, Ptr(Addr(nid)))],
                   ureftbl, urefcount, Pop(stk, 1), pos, <<>>, ulog)

\* u_closure that sets the value of an upvalue only when it makes the
\* upvalue, not when it finds it in slot 2 (C26 must not hold of it)
u_closure_upval_once ==
  /\ UAt("u_closure_upval")
  /\ LET cl == Head(uwork).x.v
         nup == Head(uwork).n
         tbl == Top(stk)
     IN IF ~IsObj(nheap, tbl, "uvtbl") THEN UFail("undefined behaviour")
        ELSE
        LET t0 == nheap[tbl.v]
            fresh == TGet(t0.slots, 2) = Nil
            nid == Len(nheap) + 1
            uv == IF fresh THEN nid ELSE lua_touserdata(TGet(t0.slots, 2))
            h1 == IF fresh THEN Append(nheap, NewUpVal) ELSE nheap
            t1 == IF fresh THEN lua_rawseti(t0, 2, Ptr(Addr(nid))) ELSE t0
            h2 == [h1 EXCEPT ![cl].upv[nup] = uv,
                             ![uv].val = IF fresh THEN TGet(t1.slots, 1)
                                         ELSE h1[uv].val]
            len == luaL_len(t1)
            at == IF len >= 2 THEN len + 1 ELSE FirstNil(t1, 3)
            t2 == lua_rawseti(t1, at, Ptr(SlotAddr(cl, nup)))
        IN UStep([h2 EXCEPT ![tbl.v] = t2], ureftbl, urefcount, Pop(stk, 1),
                 pos, <<>>, ulog)


\* u_closure, Lua closure: the table of upvalue nup has been read (... lcl tbl)
u_closure_upval ==
  /\ UAt("u_closure_upval")
  /\ LET cl == Head(uwork).x.v
         nup == Head(uwork).n
         tbl == Top(stk)
     IN IF ~IsObj(nheap, tbl, "uvtbl") THEN UFail("undefined behaviour")
        ELSE
        LET t0 == nheap[tbl.v]
            fresh == TGet(t0.slots, 2) = Nil
            nid == Len(nheap) + 1
            uv == IF fresh THEN nid ELSE lua_touserdata(TGet(t0.slots, 2))
            h1 == IF fresh THEN Append(nheap, NewUpVal) ELSE nheap
            t1 == IF fresh THEN lua_rawseti(t0, 2, Ptr(Addr(nid))) ELSE t0
            \* always update the value of the upvalue
            h2 == [h1 EXCEPT ![cl].upv[nup] = uv,
                             ![uv].val = TGet(t1.slots, 1),
                             ![uv].clobbered = h1[uv].open]
            len == luaL_len(t1)
            at == IF len >= 2 THEN len + 1 ELSE FirstNil(t1, 3)
            t2 == lua_rawseti(t1, at, Ptr(SlotAddr(cl, nup)))
        IN UStep([h2 EXCEPT ![tbl.v] = t2], ureftbl, urefcount, Pop(stk, 1),
                 pos, <<>>, ulog)

\* u_thread: stack slot n has been read
u_thread_slot ==
  /\ UAt("u_thread_slot")
  /\ UStep([nheap EXCEPT ![Head(uwork).x.v].stack[Head(uwork).n] = Top(stk)],
           ureftbl, urefcount, Pop(stk, 1), pos, <<>>, ulog)

\* u_thread: read one call-info frame into thread->ci
u_thread_callinfo ==
  /\ UAt("u_thread_callinfo")
  /\ LET th == Head(uwork).x.v
         n == Len(nheap[th].ci)
         cs == Rd(4)
         ci == [nheap[th].ci[n] EXCEPT !.func = Rd(1), !.top = Rd(2),
                                       !.nresults = Rd(3), !.callstatus = cs,
                                       !.extra = Rd(5)]
         next == UT("u_thread_next", Obj(th), 0, Nil)
     IN IF HasBit(cs, CIST_LUA)
        THEN IF ~(Rd(1) + 1 \in 1..Len(nheap[th].stack)
                  /\ IsObj(nheap, nheap[th].stack[Rd(1) + 1], "lcl"))
             THEN UFail("undefined behaviour")
             ELSE UStep([nheap EXCEPT ![th].ci[n] =
                           [ci EXCEPT !.base = Rd(6), !.savedpc = Rd(7)]],
                        ureftbl, urefcount, stk, pos + 7, << next >>, ulog)
        ELSE IF HasBit(cs, CIST_YPCALL) \/ HasBit(cs, CIST_YIELDED)
        THEN UStep([nheap EXCEPT ![th].ci[n] =
                      [ci EXCEPT !.status = Rd(6), !.ctx = Rd(7)]],
                   ureftbl, urefcount, stk, pos + 7,
                   << UnpersistT, UT("u_thread_cont", Obj(th), 0, Nil), next >>,
                   ulog)
        ELSE UStep([nheap EXCEPT ![th].ci[n] =
                      [ci EXCEPT !.status = Rd(6), !.ctx = 0, !.k = 0]],
                   ureftbl, urefcount, stk, pos + 6, << next >>, ulog)

\* u_thread: the continuation function has been read
u_thread_cont ==
  /\ UAt("u_thread_cont")
  /\ LET th == Head(uwork).x.v
         n == Len(nheap[th].ci)
     IN IF Top(stk).k = "lcf" \/ IsObj(nheap, Top(stk), "ccl")
        THEN UStep([nheap EXCEPT ![th].ci[n].k = lua_tocfunction(nheap, Top(stk))],
                   ureftbl, urefcount, Pop(stk, 1), pos, <<>>, ulog)
        ELSE UFail("bad C continuation function")

\* u_thread that takes every frame for the last one (C27 must not hold of
\* it)
u_thread_next_once ==
  /\ UAt("u_thread_next")
  /\ UStep(nheap, ureftbl, urefcount, stk, pos + 1,
           << UT("u_thread_openupval", Head(uwork).x, 0, Nil) >>, ulog)

\* u_thread: the byte after a frame tells whether it was the last one
u_thread_next ==
  /\ UAt("u_thread_next")
  /\ LET th == Head(uwork).x.v
     IN IF Rd(1) # 0
        THEN UStep(nheap, ureftbl, urefcount, stk, pos + 1,
                   << UT("u_thread_openupval", Obj(th), 0, Nil) >>, ulog)
        ELSE UStep([nheap EXCEPT ![th].ci = Append(@, NewCI)],
                   ureftbl, urefcount, stk, pos + 1,
                   << UT("u_thread_callinfo", Obj(th), 0, Nil) >>, ulog)

\* u_thread: the stack offset of the next open upvalue, or the end mark
u_thread_openupval ==
  /\ UAt("u_thread_openupval")
  /\ LET th == Head(uwork).x
     IN IF Rd(1) = SIZE_MAX
        THEN UStep(nheap, ureftbl, urefcount, stk, pos + 1, <<>>, ulog)
        ELSE UStep(nheap, ureftbl, urefcount, stk, pos + 1,
                   << UnpersistT, UT("u_thread_patch", th, Rd(1), Nil),
                      UT("u_thread_openupval", th, 0, Nil) >>, ulog)

\* the closures whose upvalue slot is listed in table t at 3..n now use nuv
RECURSIVE PatchUpvals(_, _, _, _, _)
PatchUpvals(h, t, i, n, nuv) ==
  IF i > n THEN h
  ELSE LET a == TGet(t.slots, i).v
       IN PatchUpvals([h EXCEPT ![SlotCl(a)].upv[SlotNup(a)] = nuv],
                      t, i + 1, n, nuv)

\* u_thread: the table of an open upvalue has been read (... thread tbl)
u_thread_patch ==
  /\ UAt("u_thread_patch")
  /\ LET th == Head(uwork).x.v
         tbl == Top(stk)
     IN IF ~IsObj(nheap, tbl, "uvtbl") THEN UFail("undefined behaviour")
        ELSE
        LET fu == FindUpval(nheap, th, Head(uwork).n)
            t == nheap[tbl.v]
            h1 == IF TGet(t.slots, 2) # Nil
                  THEN PatchUpvals(fu.h, t, 3, luaL_len(t), fu.uv)
                  ELSE fu.h
        IN UStep([h1 EXCEPT ![tbl.v] = lua_rawseti(t, 2, Ptr(Addr(fu.uv)))],
                 ureftbl, urefcount, Pop(stk, 1), pos, <<>>, ulog)

\* copytstring: a copy of the string on top of the stack; lua_tolstring
\* gives NULL with length 0 for what is neither string nor number
copytstring(x) == IF x.k \in {"str", "num"} THEN Str(x.v) ELSE Str(0)

\* u_proto: constant n has been read (x is the Proto*)
u_proto_constant ==
  /\ UAt("u_proto_constant")
  /\ UStep([nheap EXCEPT ![lua_touserdata(Head(uwork).x)].k[Head(uwork).n] = Top(stk)],
           ureftbl, urefcount, Pop(stk, 1), pos, <<>>, ulog)

\* the next child of proto p (index i): a new prototype is pushed and read
NextChild(h, st, x, i, ps) ==
  LET p == lua_touserdata(x)
      id == Len(h) + 1
  IN IF i <= Len(h[p].p)
     THEN UStep([Append(h, NewProto) EXCEPT ![p].p[i] = id],
                ureftbl, urefcount, Append(st, Ptr(Addr(id))), ps,
                << UnpersistT, UT("u_proto_child", x, i, Nil) >>, ulog)
     ELSE UStep(h, ureftbl, urefcount, st, ps,
                << UT("u_proto_upvalues", x, 0, Nil) >>, ulog)

\* u_proto: the number of child prototypes
u_proto_children ==
  /\ UAt("u_proto_children")
  /\ LET p == lua_touserdata(Head(uwork).x)
     IN NextChild([nheap EXCEPT ![p].p = [i \in 1..Rd(1) |-> 0]], stk,
                  Head(uwork).x, 1, pos + 1)

\* u_proto: child n has been read (... proto nproto nproto/oproto)
u_proto_child ==
  /\ UAt("u_proto_child")
  /\ LET p == lua_touserdata(Head(uwork).x)
         i == Head(uwork).n
     IN NextChild([nheap EXCEPT ![p].p[i] = lua_touserdata(Top(stk))],
                  Pop(stk, 2), Head(uwork).x, i + 1, pos)

\* u_proto: upvalue descriptions and the debug flag; without debug
\* information the function returns here
u_proto_upvalues ==
  /\ UAt("u_proto_upvalues")
  /\ LET p == lua_touserdata(Head(uwork).x)
         n == Rd(1)
         dbg == Rd(2 + 2 * n)
     IN UStep([nheap EXCEPT ![p].upvalues =
                 [i \in 1..n |-> [name |-> Nil, instack |-> Rd(2 * i),
                                  idx |-> Rd(2 * i + 1)]]],
              ureftbl, urefcount, stk, pos + 2 + 2 * n,
              IF dbg = 0 THEN <<>>
              ELSE << UnpersistT, UT("u_proto_source", Head(uwork).x, 0, Nil) >>,
              ulog)

\* u_proto: the source has been read; line information, number of locals
u_proto_source ==
  /\ UAt("u_proto_source")
  /\ LET x == Head(uwork).x
         p == lua_touserdata(x)
         nl == Rd(1)
         nv == Rd(2 + nl)
     IN UStep([nheap EXCEPT ![p].source = copytstring(Top(stk)),
                            ![p].lineinfo = RdSeq(2, nl),
                            ![p].locvars = [i \in 1..nv |->
                               [startpc |-> 0, endpc |-> 0, varname |-> Nil]]],
              ureftbl, urefcount, Pop(stk, 1), pos + 2 + nl,
              Flat([i \in 1..nv |->
                      << UT("u_proto_locvar", x, i, Nil), UnpersistT,
                         UT("u_proto_locvarname", x, i, Nil) >>])
              \o Flat([i \in 1..Len(nheap[p].upvalues) |->
                         << UnpersistT, UT("u_proto_upvalname", x, i, Nil) >>])
              \o << UT("u_proto_end", x, 0, Nil) >>, ulog)

\* u_proto: startpc and endpc of local n
u_proto_locvar ==
  /\ UAt("u_proto_locvar")
  /\ LET p == lua_touserdata(Head(uwork).x)
         i == Head(uwork).n
     IN UStep([nheap EXCEPT ![p].locvars[i].startpc = Rd(1),
                            ![p].locvars[i].endpc = Rd(2)],
              ureftbl, urefcount, stk, pos + 2, <<>>, ulog)

\* u_proto: the name of local n has been read
u_proto_locvarname ==
  /\ UAt("u_proto_locvarname")
  /\ LET p == lua_touserdata(Head(uwork).x)
     IN UStep([nheap EXCEPT ![p].locvars[Head(uwork).n].varname =
                 copytstring(Top(stk))],
              ureftbl, urefcount, Pop(stk, 1), pos, <<>>, ulog)

\* u_proto: the name of upvalue n has been read
u_proto_upvalname ==
  /\ UAt("u_proto_upvalname")
  /\ LET p == lua_touserdata(Head(uwork).x)
     IN UStep([nheap EXCEPT ![p].upvalues[Head(uwork).n].name =
                 copytstring(Top(stk))],
              ureftbl, urefcount, Pop(stk, 1), pos, <<>>, ulog)

\* u_proto: lua_pushvalue(L, -1) at the end (... proto proto)
u_proto_end ==
  /\ UAt("u_proto_end")
  /\ UStep(nheap, ureftbl, urefcount, Append(stk, Top(stk)), pos, <<>>, ulog)

\* u_upval: the value has been read: lua_rawseti(L, -2, 1)
u_upval_value ==
  /\ UAt("u_upval_value")
  /\ IF ~IsObj(nheap, At(stk, -2), "uvtbl") THEN UFail("undefined behaviour")
     ELSE UStep([nheap EXCEPT ![At(stk, -2).v] = lua_rawseti(@, 1, Top(stk))],
                ureftbl, urefcount, Pop(stk, 1), pos, <<>>, ulog)

\* u_permanent that does not compare the types (C10 must not hold of it)
u_permanent_lookup_untyped ==
  /\ UAt("u_permanent_lookup")
  /\ LET ref == Head(uwork).y.v
         obj == TGet(uperms, Top(stk))
     IN IF obj = Nil THEN UFail("bad permanent value (no value)")
        ELSE UStep(nheap, ISet(ureftbl, ref, obj), urefcount,
                   Append(Pop(stk, 1), obj), pos, <<>>,
                   LogMade(ulog, Head(uwork).x.v, obj))

\* u_permanent: the permanent key has been read; look it up, check the type
\* and correct the reserved entry of the reftable
u_permanent_lookup ==
  /\ UAt("u_permanent_lookup")
  /\ LET type == Head(uwork).n
         ref == Head(uwork).y.v
         obj == TGet(uperms, Top(stk))
     IN IF obj = Nil THEN UFail("bad permanent value (no value)")
        ELSE IF lua_type(nheap, obj) # type
        THEN UFail("bad permanent value (type)")
        ELSE UStep(nheap, ISet(ureftbl, ref, obj), urefcount,
                   Append(Pop(stk, 1), obj), pos, <<>>,
                   LogMade(ulog, Head(uwork).x.v, obj))

\* unchecked_persist and unchecked_unpersist that leave the reftable on
\* the stack (C20 must not hold of it)
RemoveNothing(st) == st

\* lua_remove(L, 2) in the frame that begins at Base
RemoveSecond(st) == SubSeq(st, 1, Base + 1) \o SubSeq(st, Base + 3, Len(st))

\* a function that runs in a frame of its own returns its top value: the
\* frame and the function below it are replaced by that value
ReturnOne(st) == SubSeq(st, 1, Base - 1) \o << Top(st) >>

\* what the caller has on its stack when it calls the public function
CallerStack(arg) ==
  IF api = "dump" THEN << PermsTbl >> \o arg ELSE << Mark, PermsTbl >> \o arg

\* eris_dump, or eris_persist and l_persist, up to the call of persist in
\* unchecked_persist: eris_persist calls l_persist with copies of perms and
\* value, l_persist puts nil in place of the buffer, unchecked_persist
\* inserts the new reftable at 2
unchecked_persist ==
  /\ phase = "start"
  /\ phase' = "persist"
  /\ pstk' = IF api = "dump" THEN << PermsTbl, RefTbl, root >>
             ELSE pstk \o << Lcf(0), PermsTbl, RefTbl, Nil, root >>
  /\ pwork' = << PersistT(root) >>
  /\ UNCHANGED <<preftbl, prefcount, out, plog>>
  /\ UNCHANGED err /\ UNCHANGED ivars /\ UNCHANGED io /\ UNCHANGED uvars

\* unchecked_persist returns: the stream is complete, the reftable is
\* removed. l_persist then pushes the buffer as a string and returns it.
unchecked_persist_return ==
  /\ phase = "persist" /\ pwork = <<>>
  /\ phase' = "dumped"
  /\ pstk' = IF api = "dump" THEN RemoveSecond(pstk)
             ELSE ReturnOne(Append(RemoveSecond(pstk), StreamStr(Len(out))))
  /\ UNCHANGED <<preftbl, prefcount, pwork, out, plog>>
  /\ UNCHANGED err /\ UNCHANGED ivars /\ UNCHANGED io /\ UNCHANGED uvars

\* eris_undump, or eris_unpersist and l_unpersist, up to the call of
\* unpersist in unchecked_unpersist: new reftable at 2, collector stopped
unchecked_unpersist ==
  /\ phase = "dumped"
  /\ phase' = "unpersist"
  /\ stk' = IF api = "dump" THEN << PermsTbl, RefTbl >>
            ELSE CallerStack(<< StreamStr(Len(out)) >>)
                 \o << Lcf(0), PermsTbl, RefTbl, StreamStr(Len(out)) >>
  /\ uwork' = << UnpersistT >>
  /\ gc' = "stopped"
  /\ UNCHANGED <<nheap, ureftbl, urefcount, pos, ulog, uret>>
  /\ UNCHANGED err /\ UNCHANGED ivars /\ UNCHANGED io /\ UNCHANGED wvars

\* an open upvalue whose list links (u.l.prev, u.l.next) were overwritten
\* by a write to u.value
Clobbered ==
  \E i \in 1..Len(nheap) :
    nheap[i].type = "upval" /\ nheap[i].open /\ nheap[i].clobbered

\* unchecked_unpersist after unpersist: the reftable is removed from the
\* stack, the collector restarted and run. The collector walks the list of
\* open upvalues: with overwritten links its behaviour is undefined, the
\* call returns or the process dies.
unchecked_unpersist_return ==
  /\ phase = "unpersist" /\ uwork = <<>>
  /\ phase' \in IF Clobbered THEN {"done", "crashed"} ELSE {"done"}
  /\ stk' = IF api = "dump" THEN RemoveSecond(stk)
            ELSE ReturnOne(RemoveSecond(stk))
  /\ gc' = "running"
  /\ UNCHANGED <<nheap, ureftbl, urefcount, uwork, pos, ulog, uret>>
  /\ UNCHANGED err /\ UNCHANGED ivars /\ UNCHANGED io /\ UNCHANGED wvars

-----------------------------------------------------------------------------
(* The graphs that are persisted. Every scenario is a heap of the          *)
(* persisting VM, the value handed to persist, the two permanents tables   *)
(* and the objects the unpersisting VM holds before the call (the values   *)
(* of its permanents table).                                               *)

Tbl(ps, mt) == [type |-> "table", pairs |-> ps, mt |-> mt]
Ud(d, mt) == [type |-> "userdata", data |-> d, mt |-> mt]
Ccl(f, upv) == [type |-> "ccl", f |-> f, upv |-> upv]
Lcl(p, upv) == [type |-> "lcl", p |-> p, upv |-> upv]
ClosedUv(val) == [NewUpVal EXCEPT !.val = val]
OpenUv(th, off) == [NewUpVal EXCEPT !.open = TRUE, !.th = th, !.off = off]

\* a prototype with one upvalue, whose first instruction is op
Proto1(op, children) ==
  [NewProto EXCEPT !.linedefined = 1, !.lastlinedefined = 2,
                   !.maxstacksize = 2, !.code = <<op, 0>>,
                   !.k = << Num(1), Str(5) >>, !.p = children,
                   !.upvalues = << [name |-> Str(6), instack |-> 1, idx |-> 0] >>,
                   !.source = Str(7), !.lineinfo = <<1, 2>>,
                   !.locvars = << [startpc |-> 0, endpc |-> 1,
                                   varname |-> Str(8)] >>]

\* a prototype without upvalues, constants and locals
Proto0(op) ==
  [NewProto EXCEPT !.maxstacksize = 2, !.code = <<op>>, !.source = Str(7),
                   !.lineinfo = <<1>>]

\* frames of a suspended coroutine
CFrame(func, top, callstatus, ctx, k) ==
  [NewCI EXCEPT !.func = func, !.top = top, !.callstatus = callstatus,
                !.status = 1, !.ctx = ctx, !.k = k]
LuaFrame(func, top, callstatus, base, savedpc) ==
  [NewCI EXCEPT !.func = func, !.top = top, !.nresults = 1,
                !.callstatus = callstatus, !.base = base, !.savedpc = savedpc]
Thread(stack, ci, openupval) ==
  [type |-> "thread", status |-> 1, nCcalls |-> 0, allowhook |-> 1,
   stacksize |-> Len(stack) + 2, stack |-> stack, ci |-> ci,
   openupval |-> openupval, errorJmp |-> 0, errfunc |-> 0]

\* the root table: array slots 1..MaxSlots, then the pairs `more`
RootTbl(vs, more, mt) == Tbl([i \in 1..MaxSlots |-> <<Num(i), vs[i]>>] \o more, mt)
Slots(S) == [1..MaxSlots -> S]

Scenario(h, r, wp, up, run, nh) ==
  [heap |-> h, root |-> r, wperms |-> wp, uperms |-> up, running |-> run,
   nheap |-> nh]

\* tables that refer to themselves and to each other through values, keys
\* and metatables
TableScenarios ==
  { Scenario(<< RootTbl(vs, more, mt),
                Tbl(<< <<Str(12), Obj(1)>>, <<Bool(1), Ptr(3)>>,
                       <<Obj(2), Obj(2)>> >>, Nil) >>,
             Obj(1), {}, {}, 0, <<>>) :
      vs \in Slots({Num(1), Str(5), Obj(1), Obj(2)}),
      more \in {<<>>, << <<Obj(1), Num(7)>> >>},
      mt \in {Nil, Obj(1), Obj(2)} }

\* a C closure over the native function 7, which is a permanent value
CFunctionPerms == { <<Lcf(7), Str(3)>> }
CClosureScenarios ==
  { Scenario(<< RootTbl(vs, <<>>, Nil), Ccl(7, <<u>>) >>,
             Obj(1), CFunctionPerms, up, 0, <<>>) :
      vs \in Slots({Obj(2), Lcf(7), Lcf(8), Str(3), Num(1)}),
      u \in {Num(2), Obj(2)},
      up \in {{ <<Str(3), Lcf(7)>> }, {}, { <<Str(3), Num(0)>> }} }
  \cup
  { Scenario(<< Ccl(7, <<u, Str(3)>>) >>, Obj(1), wp, { <<Str(3), Lcf(7)>> },
             0, <<>>) :
      u \in {Num(2), Obj(1)}, wp \in {CFunctionPerms, {}} }

\* a table and a string that are permanent values
PermanentScenarios ==
  { Scenario(<< RootTbl(vs, <<>>, Nil), Tbl(<<>>, Nil) >>, Obj(1),
             { <<Obj(2), Str(3)>>, <<Str(5), Num(6)>> }, up, 0,
             << Tbl(<< <<Num(1), Num(1)>> >>, Nil) >>) :
      vs \in Slots({Obj(2), Str(5), Str(3), Num(1)}),
      up \in {{ <<Str(3), Obj(1)>>, <<Num(6), Str(5)>> },
              { <<Str(3), Obj(1)>>, <<Num(6), Bool(1)>> },
              { <<Num(6), Str(5)>> }} }

\* three Lua closures that share an upvalue, and perhaps a prototype
ClosureScenarios ==
  { Scenario(<< RootTbl(vs, <<>>, Nil), Lcl(4, <<6>>), Lcl(pg, <<6>>),
                Proto1(2, <<5>>), Proto1(0, <<>>), ClosedUv(val),
                Lcl(5, <<6>>) >>,
             Obj(1), {}, {}, 0, <<>>) :
      vs \in Slots({Obj(2), Obj(3), Obj(7), Num(1)}),
      pg \in {4, 5},
      val \in {Nil, Num(3), Obj(1), Obj(2), Obj(7)} }

\* a suspended coroutine whose Lua frame runs closure 3; its local at stack
\* offset 1, which holds sv, is an open upvalue of closures 3, 4 and 7
ThreadFrames(kind) ==
  \* "stale": the base frame still holds the context and the continuation
  \* of an earlier call
  (IF kind = "stale" THEN << CFrame(0, 3, 0, 9, 7) >>
   ELSE << CFrame(0, 3, 0, 0, 0) >>)
  \o (IF kind = "hook"
      THEN << LuaFrame(0, 3, CIST_LUA + CIST_HOOKYIELD, 1, 1) >>
      ELSE << LuaFrame(0, 3, CIST_LUA, 1, 1) >>)
  \o (IF kind = "ypcall" THEN << CFrame(2, 3, CIST_YPCALL, 3, 7) >>
      ELSE IF kind = "yielded" THEN << CFrame(2, 3, CIST_YIELDED, 0, 7) >>
      ELSE <<>>)
ThreadHeap(vs, kind, sv) ==
  << RootTbl(vs, <<>>, Nil),
     Thread(<< Obj(3), sv, Obj(7) >>, ThreadFrames(kind), <<6>>),
     Lcl(5, <<6>>), Lcl(5, <<6>>), Proto1(2, <<>>), OpenUv(2, 1),
     Lcl(5, <<6>>) >>
ThreadScenarios ==
  { Scenario(ThreadHeap(vs, kind, sv), Obj(1), CFunctionPerms,
             { <<Str(3), Lcf(7)>> }, 0, <<>>) :
      vs \in Slots({Obj(2), Obj(3), Obj(4), Num(1)}),
      kind \in {"lua", "ypcall", "hook"}, sv \in {Num(5), Nil} }
  \cup
  { Scenario(ThreadHeap([i \in 1..MaxSlots |-> Obj(2)], kind, Num(5)), Obj(2),
             CFunctionPerms, up, run, << Lcl(2, <<>>), Proto0(0) >>) :
      kind \in {"lua", "yielded", "stale"},
      up \in {{ <<Str(3), Lcf(7)>> }, { <<Str(3), Obj(1)>> }},
      run \in {0, 2} }
  \cup
  \* the coroutine is the thread that runs persist, and a value of the root
  { Scenario(ThreadHeap(vs, "lua", Num(5)), Obj(1), CFunctionPerms,
             { <<Str(3), Lcf(7)>> }, 2, <<>>) :
      vs \in Slots({Obj(2), Obj(3), Num(1)}) }

\* Thread 2 has called the native function 7, which has resumed thread 3
\* (lua_resume); thread 3 runs persist. Thread 2 is not suspended: status
\* LUA_OK, one C call, and errorJmp or errfunc set.
ParentThread(ej, ef) ==
  [Thread(<< Nil, Lcf(7) >>, << CFrame(0, 1, 0, 0, 0), CFrame(1, 2, 0, 0, 0) >>,
          <<>>)
     EXCEPT !.status = 0, !.nCcalls = 1, !.errorJmp = ej, !.errfunc = ef]
ParentScenarios ==
  { Scenario(<< RootTbl(vs, <<>>, Nil), ParentThread(e[1], e[2]),
                Thread(<< Nil >>, << CFrame(0, 1, 0, 0, 0) >>, <<>>) >>,
             r, CFunctionPerms, { <<Str(3), Lcf(7)>> }, 3, <<>>) :
      vs \in Slots({Obj(2), Num(1)}), e \in { <<1, 0>>, <<0, 1>>, <<0, 0>> },
      r \in {Obj(1), Obj(2)} }

\* a table or a userdata with a metatable whose __persist field is pk; the
\* function 4 returns the closure 5, which is called by unpersist
SpecialHeap(vs, ud, pk, pop, fop, fv) ==
  << RootTbl(vs, <<>>, Nil),
     IF ud THEN Ud(<<4, 2>>, Obj(3)) ELSE Tbl(<< <<Num(1), Num(2)>> >>, Obj(3)),
     Tbl(IF pk = Nil THEN << <<Str(5), Num(1)>> >>
         ELSE << <<persistKey, pk>> >>, Nil),
     Lcl(6, <<7>>), Lcl(8, <<9>>), Proto1(pop, <<>>), ClosedUv(Obj(5)),
     Proto1(fop, <<>>), ClosedUv(fv) >>
SpecialScenarios ==
  { Scenario(SpecialHeap(vs, ud, Obj(4), pop, fop, fv), Obj(1), {}, {}, 0, <<>>) :
      vs \in Slots({Obj(2), Num(1)}), ud \in BOOLEAN,
      pop \in {2, 4}, fop \in {1, 4}, fv \in {Num(2), Obj(2)} }
  \cup
  { Scenario(SpecialHeap(vs, ud, pk, 2, 1, Num(2)), Obj(1), {}, {}, 0, <<>>) :
      vs \in Slots({Obj(2), Num(1)}), ud \in BOOLEAN,
      pk \in {Nil, Bool(1), Bool(0), Num(1)} }

\* numbers, booleans and light userdata that are keys of the permanents
\* table, as values and keys of a table and as the value of an upvalue
BasicPerms ==
  { <<Num(1), Str(4)>>, <<Bool(1), Str(4)>>, <<Ptr(3), Str(4)>>,
    <<Str(5), Str(4)>> }
BasicScenarios ==
  { Scenario(<< RootTbl(vs, <<>>, Nil), Lcl(3, <<4>>), Proto1(2, <<>>),
                ClosedUv(uv) >>,
             Obj(1), BasicPerms, { <<Str(4), Str(5)>> }, 0, <<>>) :
      vs \in Slots({Num(1), Bool(1), Ptr(3), Str(5), Obj(2)}),
      uv \in {Num(1), Ptr(3)} }

\* a permanents table whose permanent keys are keys of it again, in a loop
\* ({a = "b", b = "a"})
PermLoopScenarios ==
  { Scenario(<< RootTbl(vs, <<>>, Nil) >>, Obj(1),
             { <<Str(3), Str(5)>>, <<Str(5), Str(3)>> }, up, 0, <<>>) :
      vs \in Slots({Str(3), Str(5), Num(1)}),
      up \in {{ <<Str(3), Str(5)>>, <<Str(5), Str(3)>> }} }

Scenarios ==
  PermLoopScenarios \cup TableScenarios \cup CClosureScenarios \cup PermanentScenarios
  \cup ClosureScenarios \cup ThreadScenarios \cup SpecialScenarios
  \cup BasicScenarios \cup ParentScenarios

-----------------------------------------------------------------------------
(* The round trip: unchecked_persist, then unchecked_unpersist.            *)

\* before the public function is called: the caller has pushed the
\* permanents table and the value
Start ==
  /\ \E s \in Scenarios :
       /\ heap = s.heap /\ root = s.root /\ wperms = s.wperms
       /\ uperms = s.uperms /\ running = s.running /\ nheap = s.nheap
  /\ api \in {"dump", "persist"}
  /\ pstk = CallerStack(<< root >>)
  /\ phase = "start" /\ err = ""
  /\ preftbl = {} /\ prefcount = 0 /\ pwork = <<>>
  /\ out = <<>> /\ plog = <<>>
  /\ ureftbl = {} /\ urefcount = 0 /\ uwork = <<>> /\ pos = 0
  /\ stk = <<>> /\ ulog = <<>> /\ uret = <<>> /\ gc = "running"

\* the sink and the source never refuse
Init == Start /\ io = "ok" /\ bits = WideBits

\* A Lua closure without upvalues as p_closure and p_proto write it when
\* writeDebugInformation is dbg: the prototype has no code, no constants,
\* no child and no upvalue, and with debug information the source "" and
\* no line and no local
ClosureWords(dbg) ==
  << LUA_TFUNCTION, 0, 0, LUA_TPROTO, 0, 0, 0, 0, 2, 0, 0, 0, 0, dbg >>
  \o (IF dbg = 0 THEN <<>> ELSE << LUA_TSTRING, 0, 0, 0 >>)

\* The words somebody else hands to unpersist: a framing word w alone, or
\* with one word after it, or a closure written with or without debug
\* information.
MaxRef == 2
CraftedStreams ==
  { << w >> : w \in 0..(ERIS_REFERENCE_OFFSET + MaxRef) }
  \cup { << w, v >> : w \in 0..(ERIS_REFERENCE_OFFSET + MaxRef), v \in 0..1 }
  \cup { ClosureWords(dbg) : dbg \in 0..1 }

\* before eris_undump or eris_unpersist is called with such words and an
\* empty permanents table
Crafted ==
  /\ heap = <<>> /\ root = Nil /\ wperms = {} /\ uperms = {} /\ running = 0
  /\ nheap = <<>>
  /\ api \in {"dump", "persist"}
  /\ out \in CraftedStreams
  /\ pstk = <<>> /\ phase = "dumped" /\ err = ""
  /\ preftbl = {} /\ prefcount = 0 /\ pwork = <<>> /\ plog = <<>>
  /\ ureftbl = {} /\ urefcount = 0 /\ uwork = <<>> /\ pos = 0
  /\ stk = <<>> /\ ulog = <<>> /\ uret = <<>> /\ gc = "running"

\* the sink and the source may refuse at any call, and unpersist may be
\* handed words that persist has not written
IOInit ==
  /\ (Start /\ io = "faulty") \/ (Crafted /\ io = "ok")
  /\ bits = WideBits

\* l_persist in the middle of persist: the buffer has the capacity
\* `capacity` and holds `size` words, sz words are about to be written
BufInit ==
  /\ heap = <<>> /\ root = Nil /\ wperms = {} /\ uperms = {} /\ running = 0
  /\ nheap = <<>> /\ api = "persist" /\ phase = "persist" /\ err = ""
  /\ preftbl = {} /\ prefcount = 0 /\ plog = <<>>
  /\ \E capacity \in 0..(2 ^ NarrowBits - 1), sz \in 1..(2 ^ NarrowBits - 1) :
       \E size \in 0..capacity :
         /\ out = [i \in 1..size |-> LUA_TNIL]
         /\ pwork = << WriteT([i \in 1..sz |-> LUA_TBOOLEAN]) >>
         /\ pstk = << Mark, PermsTbl, Nil, Lcf(0), PermsTbl, RefTbl,
                      IF capacity = 0 THEN Nil ELSE Buff(capacity), Nil >>
  /\ ureftbl = {} /\ urefcount = 0 /\ uwork = <<>> /\ pos = 0
  /\ stk = <<>> /\ ulog = <<>> /\ uret = <<>> /\ gc = "running"

\* builds with a wide and with a narrow size_t, and buffers near the limit
SizeInit ==
  \/ Start /\ io = "ok" /\ bits \in {NarrowBits, WideBits}
  \/ BufInit /\ io = "ok" /\ bits = NarrowBits

Next ==
  \/ unchecked_persist
  \/ persist \/ persist_keyed \/ persist_keyed_return \/ WRITE_RAW \/ p_error
  \/ unchecked_persist_return \/ unchecked_unpersist
  \/ unpersist
  \/ u_literaltable_key \/ u_literaltable_value \/ u_metatable
  \/ u_special_call
  \/ u_closure_c \/ u_closure_cupval \/ u_closure_proto \/ u_closure_upval
  \/ u_thread_slot \/ u_thread_callinfo \/ u_thread_cont \/ u_thread_next
  \/ u_thread_openupval \/ u_thread_patch
  \/ u_proto_constant \/ u_proto_children \/ u_proto_child
  \/ u_proto_upvalues \/ u_proto_source \/ u_proto_locvar
  \/ u_proto_locvarname \/ u_proto_upvalname \/ u_proto_end
  \/ u_upval_value \/ u_permanent_lookup
  \/ unchecked_unpersist_return

Spec == Init /\ [][Next]_vars

IOSpec == IOInit /\ [][Next]_vars

SizeSpec == SizeInit /\ [][Next]_vars

\* persist and unpersist are sequential C code: a call that can take its
\* next step takes it
FairSpec == Spec /\ WF_vars(Next)

-----------------------------------------------------------------------------
(* How the graph that was persisted and the graph that was built           *)
(* correspond.                                                             *)

\* prototypes and upvalues as nodes of the graphs
PNode(i) == V("proto", i)
UNode(i) == V("upval", i)

\* the value unchecked_unpersist leaves on top of the stack
result == Top(stk)

\* the values persist writes without a lookup in reftable and permanents
Basic(x) == x.k \in {"nil", "bool", "ptr", "num"}

\* x is a permanent value of the persisting side
SrcPerm(x) == ~Basic(x) /\ TGet(wperms, x) # Nil
\* x is persisted through the function its __persist field returns
SrcSpecial(x) ==
  /\ x.k = "obj" /\ heap[x.v].type \in {"table", "userdata"}
  /\ heap[x.v].mt # Nil
  /\ lua_type(heap, RawGet(heap, heap[x.v].mt.v, persistKey)) = LUA_TFUNCTION

Min(a, b) == IF a < b THEN a ELSE b
InHeap(h, x) == x.v \in 1..Len(h)

\* the pairs of components of a and b that correspond
Kids(a, b) ==
  IF a.k # b.k \/ a.k \notin {"obj", "proto", "upval"} \/ ~InHeap(nheap, b)
     \/ SrcPerm(a) \/ SrcSpecial(a)
  THEN {}
  ELSE LET x == heap[a.v]
           y == nheap[b.v]
       IN IF x.type # y.type THEN {}
          ELSE CASE x.type = "table" ->
                      UNION {{ <<x.pairs[i][1], y.pairs[i][1]>>,
                               <<x.pairs[i][2], y.pairs[i][2]>> } :
                             i \in 1..Min(Len(x.pairs), Len(y.pairs))}
                      \cup { <<x.mt, y.mt>> }
                 [] x.type = "userdata" -> { <<x.mt, y.mt>> }
                 [] x.type = "ccl" ->
                      { <<x.upv[i], y.upv[i]>> :
                          i \in 1..Min(Len(x.upv), Len(y.upv)) }
                 [] x.type = "lcl" ->
                      { <<UNode(x.upv[i]), UNode(y.upv[i])>> :
                          i \in 1..Min(Len(x.upv), Len(y.upv)) }
                      \cup { <<PNode(x.p), PNode(y.p)>> }
                 [] x.type = "thread" ->
                      { <<x.stack[i], y.stack[i]>> :
                          i \in 1..Min(Len(x.stack), Len(y.stack)) }
                      \cup { <<UNode(x.openupval[i]), UNode(y.openupval[i])>> :
                               i \in 1..Min(Len(x.openupval), Len(y.openupval)) }
                 [] x.type = "proto" ->
                      { <<PNode(x.p[i]), PNode(y.p[i])>> :
                          i \in 1..Min(Len(x.p), Len(y.p)) }
                 [] x.type = "upval" ->
                      { <<UVal(heap, a.v), UVal(nheap, b.v)>> }
                 [] OTHER -> {}

\* a and b are equal as far as their own contents go
\* what p_thread writes of a frame: context and continuation only of a
\* host frame that has yielded
Written(ci) ==
  IF HasBit(ci.callstatus, CIST_LUA) \/ HasBit(ci.callstatus, CIST_YPCALL)
     \/ HasBit(ci.callstatus, CIST_YIELDED)
  THEN ci ELSE [ci EXCEPT !.ctx = 0, !.k = 0]

Match(a, b) ==
  IF SrcPerm(a) THEN b = TGet(uperms, TGet(wperms, a))
  ELSE IF SrcSpecial(a) THEN lua_type(heap, a) = lua_type(nheap, b)
  ELSE IF a.k \notin {"obj", "proto", "upval"} THEN a = b
  ELSE /\ a.k = b.k /\ InHeap(nheap, b)
       /\ LET x == heap[a.v]
              y == nheap[b.v]
          IN /\ x.type = y.type
             /\ CASE x.type = "table" -> Len(x.pairs) = Len(y.pairs)
                  [] x.type = "userdata" -> x.data = y.data
                  [] x.type = "ccl" -> x.f = y.f /\ Len(x.upv) = Len(y.upv)
                  [] x.type = "lcl" -> Len(x.upv) = Len(y.upv)
                  [] x.type = "thread" ->
                       /\ x.status = y.status /\ x.nCcalls = y.nCcalls
                       /\ x.allowhook = y.allowhook
                       /\ x.stacksize = y.stacksize
                       /\ Len(x.stack) = Len(y.stack)
                       /\ [i \in 1..Len(x.ci) |-> Written(x.ci[i])] = y.ci
                       /\ Len(x.openupval) = Len(y.openupval)
                  [] x.type = "proto" ->
                       [x EXCEPT !.p = <<>>] = [y EXCEPT !.p = <<>>]
                       /\ Len(x.p) = Len(y.p)
                  [] x.type = "upval" -> TRUE
                  [] OTHER -> FALSE

\* the positions of the two graphs that correspond, from the roots on
RECURSIVE Close(_)
Close(S) ==
  LET T == S \cup UNION { Kids(p[1], p[2]) : p \in S }
  IN IF T = S THEN S ELSE Close(T)
Sim == Close({ <<root, result>> })

\* the reader's permanents table gives back what the writer's has replaced
InversePerms ==
  \A p \in wperms :
    LET b == TGet(uperms, p[2])
    IN IF p[1].k = "obj" THEN b.k = "obj" /\ lua_type(heap, p[1]) = lua_type(nheap, b)
       ELSE b = p[1]

\* eris_error was raised by unpersist, not by persist
ReaderFailed == phase = "failed" /\ stk # <<>>
\* the process died in unchecked_unpersist
Crashed == phase = "crashed"

\* entries of the two histories
Issued == { i \in 1..Len(plog) : plog[i][3] \in {"body", "perm"} }
Refs == { i \in 1..Len(plog) : plog[i][3] = "ref" }
\* where the body of the key with id r starts in the stream
IdPos(r) == plog[CHOOSE i \in Issued : plog[i][2] = r][4]
HasMade(p) == \E i \in 1..Len(ulog) : ulog[i][1] = "made" /\ ulog[i][2] = p
MadeAt(p) == ulog[CHOOSE i \in 1..Len(ulog) : ulog[i][1] = "made" /\ ulog[i][2] = p][4]
HasRef(q) == \E i \in 1..Len(ulog) : ulog[i][1] = "ref" /\ ulog[i][2] = q
RefAt(q) == ulog[CHOOSE i \in 1..Len(ulog) : ulog[i][1] = "ref" /\ ulog[i][2] = q][4]
\* the value unpersist has built for the source object x
HasCounterpart(x) == \E i \in Issued : plog[i][1] = x /\ HasMade(plog[i][4])
Counterpart(x) == MadeAt(plog[CHOOSE i \in Issued : plog[i][1] = x][4])

-----------------------------------------------------------------------------
(* The claims.                                                             *)

\* no object of the graph is persisted through a __persist function
NoSpecial == \A i \in 1..Len(heap) : ~SrcSpecial(Obj(i))

\* C1: round trip. When persist has written the graph and the reader's
\* permanents table is the inverse of the writer's, unpersist does not fail
\* and every position of the result is equal to the corresponding position
\* of the original (same kind, same contents, corresponding components),
\* for strings, tables, userdata, C closures with upvalues, Lua closures
\* and suspended threads.
C1_RoundTrip ==
  (InversePerms /\ NoSpecial) =>
    /\ ~ReaderFailed /\ ~Crashed
    /\ phase = "done" => \A p \in Sim : Match(p[1], p[2])

\* C2: identity preservation. Two positions of the persisted graph that
\* hold the same object (table, string, userdata, thread, C closure, Lua
\* closure) correspond to two positions of the result that hold one and the
\* same value.
C2_Identity ==
  phase = "done" =>
    \A p \in Sim, q \in Sim :
      (p[1] = q[1] /\ p[1].k \in {"obj", "str"}) => p[2] = q[2]

\* C3: reader and writer agree on the ids. What the reader holds in slot i
\* of its reftable when it is done is the value it has built from the part
\* of the stream the writer wrote for id i, and every reference word it has
\* read was resolved to the value built for the id in the word.
C3_IdsAgree ==
  /\ phase = "done" =>
       \A i \in Issued :
         /\ HasMade(plog[i][4])
         /\ TGet(ureftbl, plog[i][2]) = MadeAt(plog[i][4])
  /\ \A j \in 1..Len(ulog) :
       ulog[j][1] = "ref" =>
         /\ HasMade(IdPos(ulog[j][3]))
         /\ ulog[j][4] = MadeAt(IdPos(ulog[j][3]))

\* C4: invariant R1 of the writer. A key gets at most one id, the ids are
\* issued 1, 2, 3, ... without gap or reuse, and once a key has an id every
\* later occurrence of it is written as the reference word of that id and
\* not as a second body; so a prototype or an upvalue that several
\* closures share is written once.
C4_R1 ==
  /\ \A i \in Issued, j \in Issued : plog[i][1] = plog[j][1] => i = j
  /\ \A i \in Issued : plog[i][2] = Cardinality({j \in Issued : j <= i})
  /\ prefcount = Cardinality(Issued)
  /\ \A p \in preftbl : \E i \in Issued : plog[i][1] = p[1] /\ Num(plog[i][2]) = p[2]
  /\ \A i \in Issued : Len(out) > plog[i][4] => out[plog[i][4] + 1] <= ERIS_PERMANENT
  /\ \A j \in Refs :
       /\ \E i \in Issued :
            i < j /\ plog[i][1] = plog[j][1] /\ plog[i][2] = plog[j][2]
       /\ Len(out) > plog[j][4] =>
            out[plog[j][4] + 1] = plog[j][2] + ERIS_REFERENCE_OFFSET

\* C4 happens: the writer has written the graph, and a prototype or an
\* upvalue met for the second time was written as a reference
C4_Witness ==
  /\ phase = "dumped"
  /\ \E j \in Refs : plog[j][1].k = "ptr" /\ plog[j][1].v = Addr(4)
  /\ \E j \in Refs : plog[j][1].k = "ptr" /\ plog[j][1].v = Addr(6)

\* C5: invariant R2 of the reader. A reference to an object that was
\* written while the object itself was still being written (a reference
\* from a descendant back to the object) is resolved by the reader to the
\* object it has built for that id: not to nil and not to another value.
\* This for tables, userdata, C closures, Lua closures, prototypes, upvalue
\* records, threads, special-persisted objects and permanents.
C5_R2 ==
  \A j \in Refs :
    (plog[j][5] /\ HasRef(plog[j][4])) =>
      /\ RefAt(plog[j][4]) # Nil
      /\ HasMade(IdPos(plog[j][2]))
      /\ RefAt(plog[j][4]) = MadeAt(IdPos(plog[j][2]))

\* all objects of the graph are tables, none has a __persist field
OnlyTables ==
  /\ wperms = {} /\ NoSpecial
  /\ \A i \in 1..Len(heap) : heap[i].type = "table"

\* C6: cycles through tables. The round trip of a graph of literally
\* persisted tables does not fail, and where a table holds itself as a
\* value, as a key or as its metatable, the table built for it holds
\* itself at the same place.
C6_TableCycles ==
  /\ OnlyTables => ~ReaderFailed
  /\ phase = "done" =>
       \A i \in 1..Len(heap) :
         (heap[i].type = "table" /\ ~SrcSpecial(Obj(i)) /\ ~SrcPerm(Obj(i))
          /\ HasCounterpart(Obj(i))) =>
           LET t == heap[i]
               c == Counterpart(Obj(i))
           IN /\ IsObj(nheap, c, "table")
              /\ Len(nheap[c.v].pairs) = Len(t.pairs)
              /\ \A j \in 1..Len(t.pairs) :
                   /\ t.pairs[j][1] = Obj(i) => nheap[c.v].pairs[j][1] = c
                   /\ t.pairs[j][2] = Obj(i) => nheap[c.v].pairs[j][2] = c
              /\ t.mt = Obj(i) => nheap[c.v].mt = c

\* C6 happens: a table that is a value, a key and the metatable of itself
\* has made the round trip
C6_Witness ==
  /\ phase = "done" /\ OnlyTables /\ heap[1].mt = Obj(1)
  /\ \E j \in 1..Len(heap[1].pairs) : heap[1].pairs[j][1] = Obj(1)
  /\ \E j \in 1..Len(heap[1].pairs) : heap[1].pairs[j][2] = Obj(1)

\* the Lua closures of the graph
LClosures == { i \in 1..Len(heap) : heap[i].type = "lcl" }
\* the graph holds Lua closures and tables only, and no permanent value
OnlyClosures ==
  /\ wperms = {} /\ NoSpecial
  /\ \A i \in 1..Len(heap) : heap[i].type \in {"table", "lcl", "proto", "upval"}

\* C7: shared upvalues. The round trip of a graph of Lua closures does not
\* fail, and where two upvalue slots of the closures f and g hold the same
\* upvalue, the two slots of the closures built for f and g hold one and
\* the same upvalue object, which holds the counterpart of the value.
C7_SharedUpvalues ==
  /\ OnlyClosures => ~ReaderFailed
  /\ phase = "done" =>
       \A f \in LClosures, g \in LClosures :
         (HasCounterpart(Obj(f)) /\ HasCounterpart(Obj(g))) =>
           LET cf == Counterpart(Obj(f))
               cg == Counterpart(Obj(g))
           IN /\ IsObj(nheap, cf, "lcl") /\ IsObj(nheap, cg, "lcl")
              /\ Len(nheap[cf.v].upv) = Len(heap[f].upv)
              /\ \A i \in 1..Len(heap[f].upv), j \in 1..Len(heap[g].upv) :
                   heap[f].upv[i] = heap[g].upv[j] =>
                     /\ nheap[cf.v].upv[i] = nheap[cg.v].upv[j]
                     /\ nheap[cf.v].upv[i] \in 1..Len(nheap)
                     /\ nheap[nheap[cf.v].upv[i]].type = "upval"

\* C7 happens: two closures that share an upvalue whose value is one of
\* them have made the round trip, the one that is the value decoded last
C7_Witness ==
  /\ phase = "done" /\ OnlyClosures
  /\ \E f \in LClosures, g \in LClosures :
       /\ f # g /\ heap[f].upv[1] = heap[g].upv[1]
       /\ UVal(heap, heap[f].upv[1]) = Obj(f)
       /\ heap[1].pairs[1][2] = Obj(g)
       /\ HasCounterpart(Obj(f)) /\ HasCounterpart(Obj(g))

\* the threads of the graph
Threads == { i \in 1..Len(heap) : heap[i].type = "thread" }

\* C8: open upvalues of a coroutine. unpersist returns, and then every
\* upvalue slot of a closure that held an open upvalue of a thread at stack
\* offset o holds the open upvalue at offset o of the thread built for it,
\* an upvalue that is linked as open upvalues are, whether the closure was
\* decoded before or after the list of open upvalues of the thread.
C8_OpenUpvalues ==
  /\ ~Crashed
  /\ phase = "done" =>
    \A th \in Threads, f \in LClosures :
      (HasCounterpart(Obj(th)) /\ HasCounterpart(Obj(f))) =>
        \A i \in 1..Len(heap[f].upv) :
          LET u == heap[f].upv[i]
              cf == Counterpart(Obj(f))
              ct == Counterpart(Obj(th))
          IN (heap[u].open /\ heap[u].th = th) =>
               /\ IsObj(nheap, cf, "lcl") /\ IsObj(nheap, ct, "thread")
               /\ nheap[cf.v].upv[i] \in 1..Len(nheap)
               /\ LET v == nheap[nheap[cf.v].upv[i]]
                  IN /\ v.type = "upval" /\ v.open /\ ~v.clobbered
                     /\ v.th = ct.v /\ v.off = heap[u].off
                     /\ \E n \in 1..Len(nheap[ct.v].openupval) :
                          nheap[ct.v].openupval[n] = nheap[cf.v].upv[i]

\* C9: permanents. An object that is a key of the writer's permanents
\* table is written as PERMANENT, its type and its permanent key, and
\* every occurrence of it in the graph is decoded to the value the reader's
\* permanents table holds under that key.
C9_Permanents ==
  /\ \A i \in Issued :
       LET x == plog[i][1]
           at == plog[i][4]
       IN SrcPerm(x) =>
            /\ plog[i][3] = "perm"
            /\ Len(out) > at + 1 =>
                 out[at + 1] = ERIS_PERMANENT /\ out[at + 2] = lua_type(heap, x)
            /\ phase = "done" =>
                 HasMade(at) /\ MadeAt(at) = TGet(uperms, TGet(wperms, x))
  /\ \A j \in Refs :
       (SrcPerm(plog[j][1]) /\ HasRef(plog[j][4])) =>
         RefAt(plog[j][4]) = TGet(uperms, TGet(wperms, plog[j][1]))

\* C10: errors of permanents. When the reader's permanents table holds
\* nothing under the key that was decoded, or a value whose type is not
\* the type the writer has recorded, unpersist raises an error and yields
\* no value.
C10_PermanentErrors ==
  [][(UAt("u_permanent_lookup")
      /\ \/ TGet(uperms, Top(stk)) = Nil
         \/ lua_type(nheap, TGet(uperms, Top(stk))) # Head(uwork).n)
     => /\ phase' = "failed" /\ uwork' = <<>> /\ stk' = stk
        /\ ureftbl' = ureftbl
        /\ err' = IF TGet(uperms, Top(stk)) = Nil
                  THEN "bad permanent value (no value)"
                  ELSE "bad permanent value (type)"]_vars

\* C10 happens: the writer recorded a string, the reader's permanents table
\* holds a boolean
C10_Witness ==
  /\ phase = "failed" /\ err = "bad permanent value (type)"
  /\ \E p \in wperms : p[1].k = "str" /\ TGet(uperms, p[2]).k = "bool"

\* C11: basic values are written inline. persist of nil, a boolean, a light
\* userdata or a number calls no persist_keyed: it issues no id, adds
\* nothing to the reftable, looks nothing up in the permanents table and
\* writes the type tag and (but for nil) the value, also when the value is
\* a key of the permanents table. The only basic values that ever are keys
\* of the reftable are the addresses of prototypes and upvalues.
C11_BasicInline ==
  /\ [][(phase = "persist" /\ pwork # <<>> /\ Head(pwork).op = "persist"
         /\ Basic(Head(pwork).x))
        => /\ preftbl' = preftbl /\ prefcount' = prefcount /\ plog' = plog
           /\ Calls(pwork') = << WriteT(<<lua_type(heap, Head(pwork).x)>>) >>
                               \o (IF Head(pwork).x = Nil THEN <<>>
                                   ELSE << WriteT(<<Head(pwork).x.v>>) >>)
                               \o Calls(Tail(pwork))]_vars
  /\ [](\A i \in 1..Len(plog) :
          Basic(plog[i][1]) =>
            /\ plog[i][1].k = "ptr"
            /\ ObjAt(plog[i][1].v) \in 1..Len(heap)
            /\ heap[ObjAt(plog[i][1].v)].type \in {"proto", "upval"})

\* C11 happens: a light userdata and a boolean that are keys of the
\* permanents table were written as values of the root table
C11_Witness ==
  /\ phase = "dumped"
  /\ TGet(wperms, Ptr(3)) # Nil /\ TGet(wperms, Bool(1)) # Nil
  /\ TGet(wperms, Num(1)) # Nil
  /\ heap[1].pairs[1][2] = Ptr(3) /\ heap[1].pairs[2][2] = Bool(1)

\* the raw value of the __persist field of the metatable of x
PersistField(x) ==
  IF heap[x.v].mt = Nil THEN Nil ELSE RawGet(heap, heap[x.v].mt.v, persistKey)
\* persist_keyed is about to write the body of the table or userdata x
AtBodyOf(x) ==
  /\ phase = "persist" /\ pwork # <<>> /\ Head(pwork).op = "keyed"
  /\ Head(pwork).x = x /\ Head(pwork).y = x
  /\ x.k = "obj" /\ heap[x.v].type \in {"table", "userdata"}
  /\ TGet(preftbl, x) = Nil /\ TGet(wperms, x) = Nil
\* the literal body starts: flag 0, then the first key or the length
LiteralStart(w, x) ==
  /\ w[2] = WriteT(<<0>>)
  /\ w[3] = IF heap[x.v].type = "userdata" THEN WriteT(<<Len(heap[x.v].data)>>)
            ELSE IF heap[x.v].pairs = <<>> THEN PersistT(Nil)
            ELSE PersistT(heap[x.v].pairs[1][1])
\* an error is raised before anything but the type tag is written
ErrorStart(w) == w[2].op = "error"

\* C12: the decision of the writer for a table or userdata x by the raw
\* value of the field __persist of its metatable. No metatable or no field:
\* the literal body (flag 0) for a table, an error for a userdata. true:
\* the literal body. false: an error. A function: it is called with x; if
\* it returns a function, flag 1 and that function are written in place of
\* x, if not an error is raised. Any other value: an error.
C12_SpecialDecision ==
  [][\A i \in 1..Len(heap) :
       AtBodyOf(Obj(i)) =>
         LET x == Obj(i)
             pk == PersistField(x)
             res == lua_call(heap, pk, x)
             w == Calls(pwork')
         IN /\ w[1] = WriteT(<<lua_type(heap, x)>>)
            /\ CASE pk = Nil ->
                      IF heap[i].type = "table" THEN LiteralStart(w, x)
                      ELSE ErrorStart(w)
                 [] pk = Bool(1) -> LiteralStart(w, x)
                 [] pk = Bool(0) -> ErrorStart(w)
                 [] lua_type(heap, pk) = LUA_TFUNCTION ->
                      IF lua_type(heap, res) = LUA_TFUNCTION
                      THEN /\ w[2] = WriteT(<<1>>) /\ w[3] = PersistT(res)
                           /\ w[4].op = "return"
                      ELSE ErrorStart(w)
                 [] OTHER -> ErrorStart(w)]_vars

\* C12 happens: a userdata whose __persist function returned a closure was
\* written with flag 1
C12_Witness ==
  /\ phase = "dumped" /\ Len(heap) >= 2
  /\ SrcSpecial(Obj(2)) /\ heap[2].type = "userdata"
  /\ \E i \in Issued : plog[i][1] = Obj(2) /\ out[plog[i][4] + 2] = 1

\* unpersist is about to read a table or userdata with the special flag set
AtSpecial ==
  /\ UAt("unpersist") /\ Rd(1) \in {LUA_TTABLE, LUA_TUSERDATA} /\ Rd(2) # 0
\* the entries of the writer's history for special-persisted objects
SpecialIssued == { i \in Issued : SrcSpecial(plog[i][1]) }

\* C13: special persistence in the reader. The id of the object is
\* reserved (with nil) before the function is read. When the function has
\* been read it is called: if what was read is no function, or the result
\* is not of the kind of the type tag, an error is raised; if it is, the
\* reserved entry of the reftable, and no other, is set to the result, the
\* count of ids stays as it is, and every reference to the id that is read
\* later gives the result.
C13_SpecialReader ==
  /\ [][AtSpecial =>
          /\ urefcount' = urefcount + 1 /\ ureftbl' = ureftbl
          /\ TGet(ureftbl', urefcount') = Nil
          /\ pos' = pos + 2 /\ stk' = stk
          /\ uwork'[1] = UnpersistT /\ uwork'[2].op = "u_special_call"
          /\ uwork'[2].y = Num(urefcount') /\ uwork'[2].n = Rd(1)]_vars
  /\ [][UAt("u_special_call") =>
          LET f == Top(stk)
              ref == Head(uwork).y.v
          IN IF lua_type(nheap, f) # LUA_TFUNCTION
             THEN phase' = "failed" /\ err' = "invalid restore function"
             ELSE IF phase' = "failed"
             THEN /\ err' = "bad unpersist function"
                  /\ lua_type(nheap, lua_call(nheap, f, Nil)) # Head(uwork).n
                  /\ lua_call(nheap, f, Nil) # NewTbl
                       \/ Head(uwork).n # LUA_TTABLE
             ELSE /\ lua_type(nheap', Top(stk')) = Head(uwork).n
                  /\ stk' = Append(Pop(stk, 1), Top(stk'))
                  /\ ureftbl' = ISet(ureftbl, ref, Top(stk'))
                  /\ urefcount' = urefcount]_vars
  /\ [](\A i \in SpecialIssued, j \in 1..Len(ulog) :
          (ulog[j][1] = "ref" /\ ulog[j][3] = plog[i][2]
           /\ \E k \in 1..j : ulog[k][1] = "made" /\ ulog[k][2] = plog[i][4])
          => ulog[j][4] = MadeAt(plog[i][4]))

\* C13 happens: a special-persisted table was built by its function and a
\* later reference to its id was read
C13_Witness ==
  /\ phase = "done"
  /\ \E i \in SpecialIssued, j \in 1..Len(ulog) :
       /\ heap[plog[i][1].v].type = "table"
       /\ ulog[j][1] = "ref" /\ ulog[j][3] = plog[i][2]
       /\ ulog[j][4] = MadeAt(plog[i][4])

\* The function that the __persist field of object 2 returns has object 2
\* as the value of an upvalue, and object 2 is a value of the root table.
SelfRefFixup ==
  /\ Len(heap) >= 2 /\ SrcSpecial(Obj(2))
  /\ \E j \in 1..Len(heap[1].pairs) : heap[1].pairs[j][2] = Obj(2)
  /\ LET res == lua_call(heap, PersistField(Obj(2)), Obj(2))
     IN /\ IsObj(heap, res, "lcl")
        /\ \E n \in 1..Len(heap[res.v].upv) :
             UVal(heap, heap[res.v].upv[n]) = Obj(2)

BodyOf(th) == { i \in Issued : plog[i][1] = Obj(th) /\ plog[i][3] = "body" }
\* eris_error was raised by persist
WriterFailed == phase = "failed" /\ stk = <<>>

\* C15: the thread that runs persist cannot be persisted. When persist
\* comes to write it (as the root or as a value inside the graph), it
\* raises "cannot persist currently running thread", and of the thread
\* nothing but the type tag is in the stream: the test comes before every
\* write of p_thread.
C15_RunningThread ==
  \A i \in BodyOf(running) :
    /\ phase = "persist" \/ WriterFailed
    /\ WriterFailed => err = "cannot persist currently running thread"
    /\ Len(out) <= plog[i][4] + 1
    /\ Len(out) = plog[i][4] + 1 => out[Len(out)] = LUA_TTHREAD

\* C15 happens: the running thread was met as a value of the root table,
\* after other values were written, and the error was raised
C15_Witness ==
  /\ WriterFailed /\ err = "cannot persist currently running thread"
  /\ root = Obj(1) /\ BodyOf(running) # {}
  /\ \E i \in BodyOf(running) : plog[i][4] > 4

\* C16: a thread that is not suspended is rejected. When persist comes to
\* write a thread whose errorJmp is not NULL or whose errfunc is not 0, it
\* raises an error: it does not return with a stream.
C16_NotSuspended ==
  \A th \in Threads :
    ((heap[th].errorJmp # 0 \/ heap[th].errfunc # 0) /\ BodyOf(th) # {})
      => (phase = "persist" \/ WriterFailed)

\* a call-info frame of thread th has the status bit CIST_HOOKYIELD
HookYielded(th) ==
  \E n \in 1..Len(heap[th].ci) : HasBit(heap[th].ci[n].callstatus, CIST_HOOKYIELD)

AtFirst(x) ==
  /\ phase = "persist" /\ pwork # <<>> /\ Head(pwork).op = "keyed"
  /\ Head(pwork).x = x /\ Head(pwork).y = x /\ TGet(preftbl, x) = Nil
\* the C closures of the graph
CClosures == { i \in 1..Len(heap) : heap[i].type = "ccl" }
\* the native functions of the graph: of the C closures, of the frames
\* with a continuation, and the two light C functions of the scenarios
CFunctions ==
  { heap[i].f : i \in CClosures } \cup {7, 8}

\* C18: C functions and C closures. A light C function that is no key of
\* perms is not persisted: "Attempt to persist a light C function" is
\* raised; one that is a key is written as PERMANENT, its type and its
\* permanent key. A C closure (that is no key of perms itself) is written
\* as the marker 1, the number of upvalues, its native function as a light
\* C function (so through the permanents table, or the error is raised)
\* and then each upvalue as a plain value; when the native function is no
\* key of perms, persist raises the error and returns no stream.
C18_CClosure ==
  /\ [][\A f \in CFunctions :
          AtFirst(Lcf(f)) =>
            IF TGet(wperms, Lcf(f)) # Nil
            THEN Calls(pwork') =
                   << WriteT(<<ERIS_PERMANENT>>), WriteT(<<LUA_TFUNCTION>>),
                      PersistT(TGet(wperms, Lcf(f))),
                      ReturnT(prefcount + 1) >> \o Calls(Tail(pwork))
            ELSE /\ Calls(pwork')[1] = WriteT(<<LUA_TFUNCTION>>)
                 /\ Calls(pwork')[2] =
                      ErrorT("Attempt to persist a light C function")]_vars
  /\ [][\A c \in CClosures :
          (AtFirst(Obj(c)) /\ TGet(wperms, Obj(c)) = Nil) =>
            LET n == Len(heap[c].upv)
                w == Calls(pwork')
            IN /\ w[1] = WriteT(<<LUA_TFUNCTION>>)
               /\ w[2] = WriteT(<<1>>) /\ w[3] = WriteT(<<n>>)
               /\ w[4] = PersistT(Lcf(heap[c].f))
               /\ \A i \in 1..n : w[4 + i] = PersistT(heap[c].upv[i])
               /\ w[5 + n] = ReturnT(prefcount + 1)]_vars
  /\ [](\A c \in CClosures :
          (TGet(wperms, Obj(c)) = Nil /\ TGet(wperms, Lcf(heap[c].f)) = Nil
           /\ \E i \in Issued : plog[i][1] = Obj(c)) =>
            /\ phase = "persist" \/ WriterFailed
            /\ WriterFailed => err = "Attempt to persist a light C function")

\* C18 happens: a C closure was written, its native function as PERMANENT
C18_Witness ==
  /\ phase = "dumped"
  /\ \E c \in CClosures, i \in Issued, j \in Issued :
       /\ plog[i][1] = Obj(c) /\ plog[i][3] = "body"
       /\ plog[j][1] = Lcf(heap[c].f) /\ plog[j][3] = "perm"
       /\ plog[j][4] = plog[i][4] + 3
       /\ out[plog[j][4] + 1] = ERIS_PERMANENT

\* C19: the collector. unpersist stops automatic collection before it
\* decodes, and when the operation has ended, with the value or with an
\* error, automatic collection is running again.
C19_Collector ==
  /\ phase = "unpersist" => gc = "stopped"
  /\ (phase = "done" \/ ReaderFailed) => gc = "running"

\* C20: when the public functions succeed, eris_dump leaves the stack of
\* its caller as it found it, the permanents table at 1 and the value at
\* 2, and eris_undump, eris_persist and eris_unpersist leave the stack of
\* their caller as they found it with exactly one value more on top, the
\* result: the stream as a string, or the value that was read. Neither the
\* reftable nor the buffer is left on the stack.
C20_StackEffects ==
  /\ (phase = "dumped" /\ api = "dump") => pstk = << PermsTbl, root >>
  /\ (phase = "dumped" /\ api = "persist") =>
       pstk = << Mark, PermsTbl, root, StreamStr(Len(out)) >>
  /\ (phase = "done" /\ api = "dump") =>
       /\ Len(stk) = 2 /\ stk[1] = PermsTbl
       /\ stk[2].k \notin {"reftbl", "buff", "perms"}
  /\ (phase = "done" /\ api = "persist") =>
       /\ Len(stk) = 4
       /\ SubSeq(stk, 1, 3) = << Mark, PermsTbl, StreamStr(Len(out)) >>
       /\ stk[4].k \notin {"reftbl", "buff", "perms", "stream"}

\* C20 happens: eris_persist has returned a string whose buffer had to
\* grow, and eris_unpersist has returned the value read from it
C20_Witness ==
  /\ phase = "done" /\ api = "persist" /\ Len(out) > 3
  /\ Len(pstk) = 4 /\ Len(stk) = 4 /\ Match(root, Top(stk))

\* C21: dump and persist write a header (magic bytes, the widths of int,
\* size and float, a canary float) before the top-level value, so once
\* persist of the top-level value has been called the stream is not empty,
\* and the framing word of the top-level value is not the first word that
\* unpersist reads.
C21_Header ==
  /\ (phase = "persist" /\ pwork = << PersistT(root) >>) => out # <<>>
  /\ (phase = "unpersist" /\ uwork = << UnpersistT >>) => pos > 0

\* C22: the reader takes every framing word that is greater than or equal
\* to the reference offset as a reference to the id (word - offset) and
\* fails with the dangling-reference error when that slot of the reftable
\* is nil, and takes every word below the offset as a kind tag; the writer
\* emits the reference to id i as offset + i.
C22_FramingWord ==
  /\ \A i \in 1..Len(ulog) :
       LET w == out[ulog[i][2] + 1]
       IN IF ulog[i][1] = "ref"
          THEN w >= ERIS_REFERENCE_OFFSET
               /\ ulog[i][3] = w - ERIS_REFERENCE_OFFSET
          ELSE w < ERIS_REFERENCE_OFFSET
  /\ (phase = "failed" /\ stk # <<>> /\ io # "failed" /\ pos < Len(out)) =>
       /\ err = "invalid reference" <=>
            (Rd(1) >= ERIS_REFERENCE_OFFSET /\ uwork = <<>>
             /\ ulog # <<>> /\ ulog[Len(ulog)] =
                  <<"ref", pos, Rd(1) - ERIS_REFERENCE_OFFSET, Nil>>)
       /\ err = "trying to unpersist unknown type" =>
            Rd(1) < ERIS_REFERENCE_OFFSET
  /\ \A i \in 1..Len(plog) :
       (plog[i][3] = "ref" /\ Len(out) > plog[i][4]) =>
         out[plog[i][4] + 1] = ERIS_REFERENCE_OFFSET + plog[i][2]

\* C23: as soon as the sink returns non-zero during persist, or the source
\* delivers less than was asked for during unpersist, the operation raises
\* the error "could not write data" or "could not read data": the step in
\* which that happens ends the call, nothing is written or read in it or
\* after it, and no result is returned (persist does not complete the
\* stream, unpersist returns no value).
C23_IOFailure ==
  /\ [](io = "failed" =>
          /\ phase = "failed" /\ pwork = <<>> /\ uwork = <<>>
          /\ err \in {"could not write data", "could not read data"}
          /\ err = "could not write data" <=> stk = <<>>)
  /\ [][io' = "failed" => (out' = out /\ pos' = pos)]_vars

\* C23 happens: the sink has refused a write in the middle of the stream
C23_Witness ==
  /\ io = "failed" /\ err = "could not write data" /\ Len(out) > 3
  /\ phase = "failed"

C25_ReaderBalance ==
  \A i \in 1..Len(uret) : uret[i][3] = uret[i][2] + 1

\* the records (tables of u_upval) whose slot 2 holds the upvalue uv
UvRecords(uv) ==
  { t \in 1..Len(nheap) :
      nheap[t].type = "uvtbl" /\ TGet(nheap[t].slots, 2) = Ptr(Addr(uv)) }
\* the Lua closures of the unpersisting VM
NewLcls == { c \in 1..Len(nheap) : nheap[c].type = "lcl" }
\* where in the stream the object x was made
MadePos(x) ==
  { ulog[i][2] : i \in { j \in 1..Len(ulog) :
                          ulog[j][1] = "made" /\ ulog[j][4] = x } }

\* C26: each time u_closure binds an upvalue slot, with an upvalue it
\* makes or with the one it finds in slot 2 of the record, it copies slot
\* 1 of the record into the upvalue; so when unpersist has completed every
\* closed upvalue of a closure holds the value in slot 1 of its record,
\* also when a closure inside that value was bound while slot 1 still was
\* nil.
C26_Reconciled ==
  /\ [][(UAt("u_closure_upval") /\ IsObj(nheap, Top(stk), "uvtbl")
         /\ phase' = "unpersist")
        => LET uv == nheap'[Head(uwork).x.v].upv[Head(uwork).n]
               t == Top(stk).v
           IN /\ TGet(nheap'[t].slots, 2) = Ptr(Addr(uv))
              /\ nheap'[uv].val = TGet(nheap'[t].slots, 1)]_vars
  /\ [](phase = "done" =>
          \A c \in NewLcls : \A i \in 1..Len(nheap[c].upv) :
            LET uv == nheap[c].upv[i]
            IN (uv # 0 /\ ~nheap[uv].open) =>
                 \A t \in UvRecords(uv) :
                   nheap[uv].val = TGet(nheap[t].slots, 1))

\* C26 happens: the value of a closed upvalue is a closure that binds this
\* upvalue and was decoded inside the record of the upvalue, so it was
\* bound while slot 1 was nil; unpersist has completed
C26_Witness ==
  /\ phase = "done"
  /\ \E c \in NewLcls : \E i \in 1..Len(nheap[c].upv) :
       LET uv == nheap[c].upv[i]
       IN /\ uv # 0 /\ ~nheap[uv].open /\ nheap[uv].val = Obj(c)
          /\ \E t \in UvRecords(uv) :
               /\ TGet(nheap[t].slots, 1) = Obj(c)
               /\ \E p \in MadePos(Obj(t)) : \E q \in MadePos(Obj(c)) : p < q

\* the threads of the persisting VM whose call-info frames have been read
\* into a new thread
FramesRead ==
  { th \in Threads :
      /\ BodyOf(th) # {} /\ HasCounterpart(Obj(th))
      /\ (phase = "done"
          \/ \E j \in 1..Len(uwork) :
               /\ uwork[j].op \in {"u_thread_openupval", "u_thread_patch"}
               /\ uwork[j].x = Counterpart(Obj(th))) }

\* C27: the reader rebuilds the call-info frames of a thread as the writer
\* has found them: as many frames, in the same order from the base frame
\* to the current frame, each with the same function, top, number of
\* results, call status and extra, a Lua frame with the same base and
\* saved pc, a host frame with the same status; a host frame that has
\* yielded (CIST_YPCALL, CIST_YIELDED) gets the context written and the
\* continuation the permanents table gives, every other host frame the
\* context 0 and no continuation.
C27_CallInfo ==
  \A th \in FramesRead :
    LET x == heap[th].ci
        y == nheap[Counterpart(Obj(th)).v].ci
    IN /\ Len(y) = Len(x)
       /\ \A i \in 1..Len(x) :
            /\ y[i].func = x[i].func /\ y[i].top = x[i].top
            /\ y[i].nresults = x[i].nresults
            /\ y[i].callstatus = x[i].callstatus /\ y[i].extra = x[i].extra
            /\ IF HasBit(x[i].callstatus, CIST_LUA)
               THEN y[i].base = x[i].base /\ y[i].savedpc = x[i].savedpc
               ELSE /\ y[i].status = x[i].status
                    /\ IF HasBit(x[i].callstatus, CIST_YPCALL)
                          \/ HasBit(x[i].callstatus, CIST_YIELDED)
                       THEN /\ y[i].ctx = x[i].ctx
                            /\ Lcf(y[i].k) = TGet(uperms, TGet(wperms, Lcf(x[i].k)))
                       ELSE y[i].ctx = 0 /\ y[i].k = 0

\* C27 happens: a thread with a host frame that holds a stale context, and
\* a thread with three frames the last of which has yielded, have been read
C27_Witness ==
  /\ phase = "done"
  /\ \E th \in FramesRead :
       /\ Len(heap[th].ci) >= 2
       /\ heap[th].ci[1].ctx # 0 /\ heap[th].ci[1].k # 0
       /\ nheap[Counterpart(Obj(th)).v].ci[1].ctx = 0

\* C28: u_closure writes the closed storage (u.value) of closed upvalues
\* only: no upvalue that u_thread has opened onto a stack slot of a thread
\* has had its closed storage written by u_closure since.
C28_ClosedStorage ==
  \A i \in 1..Len(nheap) :
    (nheap[i].type = "upval" /\ nheap[i].open) => ~nheap[i].clobbered

\* the permanents table holds a loop of permanent keys
PermLoop ==
  \E a, b \in {Str(3), Str(5)} :
    a # b /\ TGet(wperms, a) = b /\ TGet(wperms, b) = a

C30_Writer ==
  /\ [][(phase = "persist" /\ api = "persist" /\ pwork # <<>>
          /\ Head(pwork).op = "write") =>
          LET ws == Head(pwork).ws
              sz == Len(ws)
              size == Len(out)
              capacity == sizebuffer(pstk)
              grow == capacity - size < sz
              twice == (2 * capacity) % (2 ^ bits)
              \* capacity + sz is computed too
              plus == (twice - size) % (2 ^ bits) < sz
              wraps == /\ grow
                       /\ \/ 2 * capacity >= 2 ^ bits
                          \/ plus /\ capacity + sz >= 2 ^ bits
          IN \/ /\ phase' = "failed" /\ err' = "could not write data"
                /\ out' = out /\ pstk' = pstk
                /\ wraps
             \/ /\ phase' = "persist" /\ err' = err
                /\ out' = out \o ws
                /\ Len(out') = size + sz
                /\ Len(out') <= sizebuffer(pstk')
                /\ sizebuffer(pstk') >= capacity
                /\ sizebuffer(pstk') < 2 ^ bits
                /\ ~wraps]_vars
  /\ []((phase = "persist" /\ api = "persist") =>
          Len(out) <= sizebuffer(pstk))

\* C30 happens: with a narrow size_t the writer has refused words because
\* the new capacity had wrapped around, and has let the buffer grow
\* before
C30_Witness ==
  /\ bits = NarrowBits /\ api = "persist"
  /\ phase = "failed" /\ err = "could not write data"
  /\ out # <<>> /\ sizebuffer(pstk) >= Len(out)
  /\ 2 * sizebuffer(pstk) >= 2 ^ bits

====
